---- MODULE Spec2Model ----
(***************************************************************************)
(* A model of the multi-account query engine of azure-finops-mcp-server:   *)
(*   - RateLimiter / TokenBucket   (helpers/rate_limiter.py)               *)
(*   - profiles_to_use             (helpers/util.py, helpers/profiles.py)  *)
(*   - get_cost                    (aws-finops-mcp-server.py)              *)
(* Each part has its own specification over the same variables; the        *)
(* variables a specification does not use stay at their initial value.     *)
(***************************************************************************)
EXTENDS Integers, Sequences, FiniteSets, TLC

(***************************************************************************)
(* Bounds of the model.                                                    *)
(***************************************************************************)
\* the clock runs from 0 to MaxTime ticks
MaxTime == 1
\* RateLimitConfig.burst_size of the modelled limiter (bucket capacity)
BurstSize == 1
\* longest list of profiles (tokens) a caller passes
MaxProfiles == 3

(***************************************************************************)
(* Units.  time.time() and requests_per_second are floats; the model counts*)
(* time in ticks of 1/requests_per_second seconds, so the rate is one token*)
(* per tick and wait_if_needed's sleep of 1/requests_per_second is one     *)
(* tick.  The clock never runs backwards.                                  *)
(***************************************************************************)
requests_per_second == 1

Threads == {1, 2}
NoKey == "None"
KeyArgs == {NoKey, "a"}
BucketKeys == {"global", "a"}
\* A TokenBucket object lives while self.buckets or a thread's local refers
\* to it, so no more than Slots of them are alive at once; an object nothing
\* refers to is collected and its slot is NoBucket again.
Slots == 1..(Cardinality(BucketKeys) + Cardinality(Threads))
NoBucket == [rate |-> 0, capacity |-> 0, tokens |-> 0, last_update |-> 0, key |-> NoKey]
\* callers ask for 1 .. BurstSize + 1 tokens (the last can never be granted)
Amounts == 1..(BurstSize + 1)
\* The calls a thread makes: thread 1 makes any call of the limiter's public
\* methods with any argument; the other threads compete with it through
\* acquire("a", 1) and reset().
Calls(t) ==
    IF t = 1
    THEN [op : {"acquire", "wait"}, key : KeyArgs, n : Amounts]
         \cup [op : {"stats", "reset"}, key : KeyArgs, n : {0}]
    ELSE [op : {"acquire"}, key : {"a"}, n : {1}]
         \cup [op : {"reset"}, key : {NoKey}, n : {0}]

Min(a, b) == IF a <= b THEN a ELSE b
Max(a, b) == IF a >= b THEN a ELSE b

VARIABLES
    config,           \* RateLimiter.config: [enabled, per_subscription]
    now,              \* the value time.time() returns, in ticks
    heap,             \* the live TokenBucket objects, by slot (slot = identity)
    buckets,          \* RateLimiter.buckets: dict, bucket key -> index into heap
    request_history,  \* RateLimiter.request_history: dict, key -> length of the key's deque
    lock,             \* RateLimiter.lock: 0 = free, else the thread holding it
    th,               \* per thread: the call it is in and that call's locals
    impl,             \* which profiles_to_use runs: "azure" (util.py), "aws" (profiles.py)
    directory,        \* what the account directory holds (az account list / boto3 profiles)
    profiles,         \* argument profiles: the requested tokens
    all_profiles,     \* argument all_profiles
    rpc,              \* "call" before profiles_to_use ran, "done" after
    groups,           \* returned dict: account id -> list of names, in insertion order
    profile_errors,   \* returned dict: error key -> message
    time_range_days,  \* get_cost argument: [given, v]
    start_date_iso,   \* get_cost argument: [kind: "none" | "bad" | "date", day]
    end_date_iso,     \* get_cost argument, as start_date_iso
    cpc,              \* get_cost: "idle", "call", "loop" (line 42), "done" (returned)
    idx,              \* get_cost: index of the loop's next account in groups
    cost_data,        \* get_cost local cost_data: primary profile -> entry
    result,           \* the dict get_cost returned
    queries,          \* ghost: the get_cost_and_usage calls issued, in order
    outcomes,         \* ghost: what happened to each account the loop reached
    writes,           \* ghost: primary profile -> number of writes of its entry
    response,         \* cost_by_service_response["ResultsByTime"]
    breakdown,        \* processed_service_costs: [done, entries], entries in dict order
    tags,             \* the tags argument: a list of strings
    dimensions,       \* the dimensions argument: a list of strings
    query_kwargs,     \* what the filter construction returned: [done, kwargs]
    subscription,     \* the resources of a subscription and the arguments of its inspectors
    inspected,        \* inspector -> the (result, errors) pair it returned
    bucket_lock,      \* TokenBucket.lock of the object in each slot: 0 = free, else the holder
    ledger,           \* ghost, per slot: when the object was built and the tokens granted from it
    made,             \* ghost: bucket key -> number of TokenBucket objects built for it
    global_config,    \* config.py _config: "None", or the kind of the config object
    rate_limiter,     \* rate_limiter.py _rate_limiter: NoInstance (None) or the instance's identity
    instances,        \* ghost: the RateLimiter instances built since the last reset_rate_limiter
    epoch,            \* ghost: the number of reset_rate_limiter calls so far
    callers           \* per thread: its call of get_rate_limiter / reset_rate_limiter

limiterVars == <<config, now, heap, buckets, request_history, lock, th>>
resolverVars == <<impl, directory, profiles, all_profiles, rpc, groups, profile_errors>>
costVars == <<time_range_days, start_date_iso, end_date_iso, cpc, idx, cost_data,
              result, queries, outcomes, writes>>
toolVars == <<response, breakdown, tags, dimensions, query_kwargs, subscription, inspected>>
fineVars == <<bucket_lock, ledger, made>>
singletonVars == <<global_config, rate_limiter, instances, epoch, callers>>
vars == <<limiterVars, resolverVars, costVars, toolVars, fineVars, singletonVars>>

(***************************************************************************)
(* TokenBucket                                                             *)
(***************************************************************************)
\* TokenBucket.__init__: a new bucket starts full.  key is a ghost field:
\* the bucket key the object was created for.
TokenBucket(rate, capacity, key) ==
    [rate |-> rate, capacity |-> capacity, tokens |-> capacity,
     last_update |-> now, key |-> key]

\* TokenBucket._refill at clock value t
RefillUncapped(b, t) ==
    [b EXCEPT !.tokens = @ + (t - b.last_update) * b.rate, !.last_update = t]
\* Refill for a bucket that notes the time and adds nothing
RefillAddsNothing(b, t) == [b EXCEPT !.last_update = t]
Refill(b, t) ==
    [b EXCEPT !.tokens = Min(b.capacity, @ + (t - b.last_update) * b.rate),
              !.last_update = t]

\* the test of TokenBucket.consume, on the refilled bucket
Sufficient(b, n) == b.tokens >= n

\* TokenBucket.consume(n) at clock value t, the whole `with self.lock` block:
\* the bucket afterwards and the value returned
ConsumeAlways(b, n, t) ==
    LET r == Refill(b, t) IN [ok |-> TRUE, bucket |-> [r EXCEPT !.tokens = @ - n]]
Consume(b, n, t) ==
    LET r == Refill(b, t) IN
    IF Sufficient(r, n)
    THEN [ok |-> TRUE, bucket |-> [r EXCEPT !.tokens = @ - n]]
    ELSE [ok |-> FALSE, bucket |-> r]

(***************************************************************************)
(* RateLimiter                                                             *)
(***************************************************************************)
\* the early return of acquire, wait_if_needed and get_stats
NeverDisabled(cfg) == FALSE
Disabled(cfg) == ~cfg.enabled

\* bucket_key = key if self.config.per_subscription and key else "global"
BucketKeyGlobal(cfg, key) == "global"
BucketKey(cfg, key) ==
    IF cfg.per_subscription /\ key # NoKey THEN key ELSE "global"

\* the loop condition of wait_if_needed: retry while acquire returned False
WaitOnce(ok) == FALSE
WaitAgain(ok) == ~ok

\* the deque(maxlen=1000) of _record_request.  Only the number of timestamps
\* a deque holds is modelled: appending to a full deque drops the oldest.
HistoryMaxLen == 1000
DequeAppend(q) == IF q >= HistoryMaxLen THEN q ELSE q + 1

\* dict helpers
Range(d) == {d[x] : x \in DOMAIN d}
\* DictDel for a reset that clears the dict whatever the key
DictDelAll(d, k) == [x \in {} |-> 0]
\* del d[k], for a key that may be absent (lines 188-191)
DictDel(d, k) == [x \in (DOMAIN d) \ {k} |-> d[x]]
DictPut(d, k, v) == [x \in (DOMAIN d) \cup {k} |-> IF x = k THEN v ELSE d[x]]
EmptyDict == [x \in {} |-> 0]

\* A thread's record: pc is its position, op the public method it called,
\* key and n that call's arguments, bkey and bref the locals bucket_key and
\* bucket, ok the value acquire returned, wake the clock value at which the
\* last time.sleep of wait_if_needed ends (0: it never slept).  grants and
\* taken are ghosts: the number of successful consumes of this call and the
\* tokens that left the bucket in this call's consumes.
Idle ==
    [pc |-> "idle", op |-> "none", key |-> NoKey, n |-> 0, bkey |-> NoKey,
     bref |-> 0, ok |-> FALSE, wake |-> 0, grants |-> 0, taken |-> 0]

Free(t) == th[t].pc \in {"idle", "ret", "raised"}

\* the record of a call that is over: its locals are gone
Returned(r, ok) ==
    [r EXCEPT !.pc = "ret", !.ok = ok, !.key = NoKey, !.bkey = NoKey, !.bref = 0]
Raised(r) ==
    [r EXCEPT !.pc = "raised", !.key = NoKey, !.bkey = NoKey, !.bref = 0]

Set(t, r) == th' = [th EXCEPT ![t] = r]

\* the slot of a new object: which free slot it is makes no difference to the
\* program, so the model takes the key's own slot when it is free and else
\* the first free one
Home(k) == IF k = "global" THEN 1 ELSE 2
NewSlot(k) ==
    IF heap[Home(k)] = NoBucket THEN Home(k)
    ELSE CHOOSE i \in Slots : /\ heap[i] = NoBucket
                              /\ i > Cardinality(BucketKeys)
                              /\ \A j \in (Cardinality(BucketKeys) + 1)..(i - 1) :
                                     heap[j] # NoBucket
\* h after the objects that neither dict d nor a thread of locals l refers to
\* were collected
Collect(h, d, l) ==
    [i \in Slots |-> IF i \in Range(d) \/ \E t \in Threads : l[t].bref = i
                     THEN h[i] ELSE NoBucket]

\* the ledger entry of a slot without an object
NoEntry == [born |-> 0, granted |-> 0]
\* a thread that is in neither get_rate_limiter nor reset_rate_limiter
NoInstance == [epoch |-> 0, n |-> 0]
NoCall ==
    [pc |-> "idle", op |-> "none", config |-> "None", got |-> NoInstance, epoch |-> 0,
     spanned |-> FALSE]

\* RateLimiter.__init__ (lines 80-83) with any configuration
LimiterInit ==
    /\ now = 0
    /\ heap = [i \in Slots |-> NoBucket]
    /\ buckets = EmptyDict
    /\ request_history = EmptyDict
    /\ lock = 0
    /\ th = [t \in Threads |-> Idle]
    /\ bucket_lock = [i \in Slots |-> 0]
    /\ ledger = [i \in Slots |-> NoEntry]
    /\ made = EmptyDict

\* no call of get_rate_limiter or reset_rate_limiter: the module globals are
\* as at import
SingletonIdle ==
    /\ global_config = "None"
    /\ rate_limiter = NoInstance
    /\ instances = {}
    /\ epoch = 0
    /\ callers = [t \in Threads |-> NoCall]

\* no call of profiles_to_use
ResolverIdle ==
    /\ impl = "none"
    /\ directory = <<>>
    /\ profiles = <<>>
    /\ all_profiles = FALSE
    /\ rpc = "idle"
    /\ groups = <<>>
    /\ profile_errors = EmptyDict

NoDate == [kind |-> "none", day |-> 0]
BadDate == [kind |-> "bad", day |-> 0]
Date(d) == [kind |-> "date", day |-> d]
NoDays == [given |-> FALSE, v |-> 0]
Days(n) == [given |-> TRUE, v |-> n]
Pending == [kind |-> "pending"]

\* no call of get_cost
CostIdle ==
    /\ time_range_days = NoDays
    /\ start_date_iso = NoDate
    /\ end_date_iso = NoDate
    /\ cpc = "idle"
    /\ idx = 0
    /\ cost_data = EmptyDict
    /\ result = Pending
    /\ queries = <<>>
    /\ outcomes = <<>>
    /\ writes = EmptyDict

\* no aggregation of a response
BreakdownIdle ==
    /\ response = <<>>
    /\ breakdown = [done |-> FALSE, entries |-> <<>>]

\* no filter construction
FilterIdle ==
    /\ tags = <<>>
    /\ dimensions = <<>>
    /\ query_kwargs = [done |-> FALSE, kwargs |-> EmptyDict]

\* no inspector called
InspectIdle ==
    /\ subscription = EmptyDict
    /\ inspected = EmptyDict

ToolsIdle == BreakdownIdle /\ FilterIdle /\ InspectIdle

Init ==
    /\ config \in [enabled : BOOLEAN, per_subscription : BOOLEAN]
    /\ LimiterInit
    /\ SingletonIdle
    /\ ResolverIdle
    /\ CostIdle
    /\ ToolsIdle

\* time.time() advances
Tick ==
    /\ now < MaxTime
    /\ now' = now + 1
    /\ UNCHANGED <<fineVars, singletonVars, resolverVars, costVars, toolVars, config, heap, buckets, request_history, lock, th>>

\* acquire lines 99-104: the early return of a disabled limiter, else the
\* bucket key is chosen and self.lock taken (the caller blocks until it is free)
EnterAcquire(t, r) ==
    IF Disabled(config)
    THEN /\ Set(t, Returned(r, TRUE))
         /\ UNCHANGED lock
    ELSE /\ lock = 0
         /\ lock' = t
         /\ Set(t, [r EXCEPT !.pc = "acq_map", !.bkey = BucketKey(config, r.key)])

\* a thread calls acquire(key, n)
CallAcquire(t, c) ==
    /\ Free(t)
    /\ c.op = "acquire"
    /\ EnterAcquire(t, [Idle EXCEPT !.op = c.op, !.key = c.key, !.n = c.n])
    /\ UNCHANGED <<fineVars, singletonVars, resolverVars, costVars, toolVars, config, now, heap, buckets, request_history>>

\* a thread calls wait_if_needed(key, n): lines 128-131, the early return of a
\* disabled limiter, else the first call of acquire
CallWait(t, c) ==
    /\ Free(t)
    /\ c.op = "wait"
    /\ LET r == [Idle EXCEPT !.op = c.op, !.key = c.key, !.n = c.n] IN
       IF Disabled(config)
       THEN /\ Set(t, Returned(r, FALSE))
            /\ UNCHANGED lock
       ELSE EnterAcquire(t, r)
    /\ UNCHANGED <<fineVars, singletonVars, resolverVars, costVars, toolVars, config, now, heap, buckets, request_history>>

\* acquire lines 105-110: create the bucket if absent, fetch it, release the lock
AcqMap(t) ==
    /\ th[t].pc = "acq_map"
    /\ lock = t
    /\ LET k == th[t].bkey IN
       IF k \notin DOMAIN buckets
       THEN /\ heap' = [heap EXCEPT ![NewSlot(k)] =
                                TokenBucket(requests_per_second, BurstSize, k)]
            /\ buckets' = DictPut(buckets, k, NewSlot(k))
            /\ Set(t, [th[t] EXCEPT !.pc = "acq_consume", !.bref = NewSlot(k)])
       ELSE /\ UNCHANGED <<fineVars, singletonVars, heap, buckets>>
            /\ Set(t, [th[t] EXCEPT !.pc = "acq_consume", !.bref = buckets[k]])
    /\ lock' = 0
    /\ UNCHANGED <<fineVars, singletonVars, resolverVars, costVars, toolVars, config, now, request_history>>

\* what follows a False from acquire (line 118): acquire's caller gets False;
\* wait_if_needed (line 131) sleeps 1/requests_per_second = one tick
Refused(r) ==
    IF r.op = "wait" /\ WaitAgain(FALSE)
    THEN [r EXCEPT !.pc = "sleep", !.ok = FALSE, !.bref = 0, !.wake = now + 1]
    ELSE Returned(r, FALSE)

\* acquire line 113, TokenBucket.consume lines 51-57 under the bucket's lock,
\* and on success line 139 of _record_request (if key not in
\* self.request_history); the two touch different objects, so any step of
\* another thread between them commutes with one of them
AcqConsume(t) ==
    /\ th[t].pc = "acq_consume"
    /\ LET r == Consume(heap[th[t].bref], th[t].n, now)
           took == Refill(heap[th[t].bref], now).tokens - r.bucket.tokens
           me == [th[t] EXCEPT !.taken = @ + took]
           after == IF r.ok
                    THEN [me EXCEPT
                            !.pc = IF th[t].bkey \in DOMAIN request_history
                                   THEN "rec_append" ELSE "rec_new",
                            !.bref = 0, !.grants = @ + 1]
                    ELSE Refused(me)
       IN /\ Set(t, after)
          /\ heap' = Collect([heap EXCEPT ![th[t].bref] = r.bucket], buckets,
                             [th EXCEPT ![t] = after])
    /\ UNCHANGED <<fineVars, singletonVars, resolverVars, costVars, toolVars, config, now, buckets, request_history, lock>>

\* _record_request line 140: self.request_history[key] = deque(maxlen=1000)
RecNew(t) ==
    /\ th[t].pc = "rec_new"
    /\ request_history' = DictPut(request_history, th[t].bkey, 0)
    /\ Set(t, [th[t] EXCEPT !.pc = "rec_append"])
    /\ UNCHANGED <<fineVars, singletonVars, resolverVars, costVars, toolVars, config, now, heap, buckets, lock>>

\* _record_request line 142: self.request_history[key].append(time.time()),
\* a KeyError when a reset removed the key since line 139; then acquire
\* returns True (line 115) and wait_if_needed's loop ends
RecAppend(t) ==
    /\ th[t].pc = "rec_append"
    /\ IF th[t].bkey \in DOMAIN request_history
       THEN /\ request_history' =
                  [request_history EXCEPT ![th[t].bkey] = DequeAppend(@)]
            /\ Set(t, Returned(th[t], TRUE))
       ELSE /\ UNCHANGED request_history
            /\ Set(t, Raised(th[t]))
    /\ UNCHANGED <<fineVars, singletonVars, resolverVars, costVars, toolVars, config, now, heap, buckets, lock>>

\* time.sleep is over: wait_if_needed calls acquire again (line 131)
WaitWake(t) ==
    /\ th[t].pc = "sleep"
    /\ now >= th[t].wake
    /\ EnterAcquire(t, th[t])
    /\ UNCHANGED <<fineVars, singletonVars, resolverVars, costVars, toolVars, config, now, heap, buckets, request_history>>

\* a thread calls get_stats(key): lines 154-161, the early return of a
\* disabled limiter, else the bucket key is chosen and looked for in
\* self.buckets (no lock is taken); without a bucket, lines 169-170 follow
StatsHistory(r) ==
    IF r.bkey \in DOMAIN request_history
    THEN [r EXCEPT !.pc = "stats_hfetch", !.bref = 0]
    ELSE Returned(r, FALSE)
CallStats(t, c) ==
    /\ Free(t)
    /\ c.op = "stats"
    /\ LET r == [Idle EXCEPT !.op = c.op, !.key = c.key,
                             !.bkey = BucketKey(config, c.key)] IN
       IF Disabled(config)
       THEN Set(t, Returned(r, FALSE))
       ELSE IF r.bkey \in DOMAIN buckets
            THEN Set(t, [r EXCEPT !.pc = "stats_fetch"])
            ELSE Set(t, StatsHistory(r))
    /\ UNCHANGED <<fineVars, singletonVars, resolverVars, costVars, toolVars, config, now, heap, buckets, request_history, lock>>

\* get_stats lines 162-169: fetch the bucket (a KeyError when a reset removed
\* it since line 161), refill it under its lock, then look for the key in
\* self.request_history; the fetch and the look-up touch the dicts and the
\* refill the bucket, so a step of another thread between them commutes with
\* one of them
StatsFetch(t) ==
    /\ th[t].pc = "stats_fetch"
    /\ IF th[t].bkey \in DOMAIN buckets
       THEN /\ heap' = [heap EXCEPT ![buckets[th[t].bkey]] = Refill(@, now)]
            /\ Set(t, StatsHistory(th[t]))
       ELSE /\ UNCHANGED heap
            /\ Set(t, Raised(th[t]))
    /\ UNCHANGED <<fineVars, singletonVars, resolverVars, costVars, toolVars, config, now, buckets, request_history, lock>>

\* get_stats lines 170-177: fetch the deque (a KeyError when a reset removed
\* it since line 169) and count its recent entries
StatsHFetch(t) ==
    /\ th[t].pc = "stats_hfetch"
    /\ Set(t, IF th[t].bkey \in DOMAIN request_history
               THEN Returned(th[t], FALSE) ELSE Raised(th[t]))
    /\ UNCHANGED <<fineVars, singletonVars, resolverVars, costVars, toolVars, config, now, heap, buckets, request_history, lock>>

\* a thread calls reset(key): line 186, with self.lock
CallReset(t, c) ==
    /\ Free(t)
    /\ c.op = "reset"
    /\ lock = 0
    /\ lock' = t
    /\ Set(t, [Idle EXCEPT !.pc = "reset", !.op = c.op, !.key = c.key])
    /\ UNCHANGED <<fineVars, singletonVars, resolverVars, costVars, toolVars, config, now, heap, buckets, request_history>>

\* reset lines 187-196: remove the literal key from both dicts, or clear both
Reset(t) ==
    /\ th[t].pc = "reset"
    /\ lock = t
    /\ IF th[t].key # NoKey
       THEN /\ buckets' = DictDel(buckets, th[t].key)
            /\ request_history' = DictDel(request_history, th[t].key)
       ELSE /\ buckets' = EmptyDict
            /\ request_history' = EmptyDict
    /\ heap' = Collect(heap, buckets', th)
    /\ lock' = 0
    /\ Set(t, Returned(th[t], FALSE))
    /\ UNCHANGED <<fineVars, singletonVars, resolverVars, costVars, toolVars, config, now>>

Next ==
    \/ Tick
    \/ \E t \in Threads : \E c \in Calls(t) : CallAcquire(t, c)
    \/ \E t \in Threads : \E c \in Calls(t) : CallWait(t, c)
    \/ \E t \in Threads : \E c \in Calls(t) : CallStats(t, c)
    \/ \E t \in Threads : \E c \in Calls(t) : CallReset(t, c)
    \/ \E t \in Threads : AcqMap(t)
    \/ \E t \in Threads : AcqConsume(t)
    \/ \E t \in Threads : RecNew(t)
    \/ \E t \in Threads : RecAppend(t)
    \/ \E t \in Threads : WaitWake(t)
    \/ \E t \in Threads : StatsFetch(t)
    \/ \E t \in Threads : StatsHFetch(t)
    \/ \E t \in Threads : Reset(t)

Spec == Init /\ [][Next]_vars

(***************************************************************************)
(* acquire and wait_if_needed statement by statement, with the lock of the *)
(* RateLimiter and the lock of each TokenBucket                            *)
(***************************************************************************)
\* thread 1 calls acquire and wait_if_needed with any arguments, the other
\* threads compete with it through acquire("a", 1)
FineCalls(t) ==
    IF t = 1 THEN [op : {"acquire", "wait"}, key : KeyArgs, n : Amounts]
    ELSE [op : {"acquire"}, key : {"a"}, n : {1}]

\* `with self.lock:` of acquire (line 104) enters when no thread holds the
\* lock of the RateLimiter
MapLockIgnored(l) == TRUE
MapLockFree(l) == l = 0
\* `with self.lock:` of consume (line 51) enters when no thread holds the
\* lock of the TokenBucket
BucketLockIgnored(l) == TRUE
BucketLockFree(l) == l = 0

\* the ghosts after the objects of the slots that are empty in h were dropped
Surviving(h, g, none) == [i \in Slots |-> IF h[i] = NoBucket THEN none ELSE g[i]]

\* a thread calls acquire(key, n) or wait_if_needed(key, n): lines 99-102
\* and 128-131, the early return of a disabled limiter, else the bucket key
\* is chosen
FineCall(t, c) ==
    /\ Free(t)
    /\ LET r == [Idle EXCEPT !.op = c.op, !.key = c.key, !.n = c.n] IN
       IF Disabled(config)
       THEN Set(t, Returned(r, c.op = "acquire"))
       ELSE Set(t, [r EXCEPT !.pc = "f_lock", !.bkey = BucketKey(config, r.key)])
    /\ UNCHANGED <<resolverVars, costVars, toolVars, fineVars, singletonVars,
                   config, now, heap, buckets, request_history, lock>>

\* line 104: the lock of the RateLimiter is taken
FineMapLock(t) ==
    /\ th[t].pc = "f_lock"
    /\ MapLockFree(lock)
    /\ lock' = t
    /\ Set(t, [th[t] EXCEPT !.pc = "f_check"])
    /\ UNCHANGED <<resolverVars, costVars, toolVars, fineVars, singletonVars,
                   config, now, heap, buckets, request_history>>

\* line 105: if bucket_key not in self.buckets
FineMapCheck(t) ==
    /\ th[t].pc = "f_check"
    /\ Set(t, [th[t] EXCEPT !.pc = IF th[t].bkey \in DOMAIN buckets
                                   THEN "f_fetch" ELSE "f_create"])
    /\ UNCHANGED <<resolverVars, costVars, toolVars, fineVars, singletonVars,
                   config, now, heap, buckets, request_history, lock>>

\* lines 106-108: a new TokenBucket is stored under the bucket key; the
\* object that was stored there before, if no thread holds it, is collected
FineMapCreate(t) ==
    /\ th[t].pc = "f_create"
    /\ LET k == th[t].bkey
           slot == NewSlot(k)
           h == Collect([heap EXCEPT ![slot] = TokenBucket(requests_per_second, BurstSize, k)],
                        DictPut(buckets, k, slot), th)
       IN /\ heap' = h
          /\ buckets' = DictPut(buckets, k, slot)
          /\ ledger' = Surviving(h, [ledger EXCEPT ![slot] = [born |-> now, granted |-> 0]], NoEntry)
          /\ bucket_lock' = Surviving(h, bucket_lock, 0)
          /\ made' = DictPut(made, k, IF k \in DOMAIN made THEN made[k] + 1 ELSE 1)
    /\ Set(t, [th[t] EXCEPT !.pc = "f_fetch"])
    /\ UNCHANGED <<resolverVars, costVars, toolVars, singletonVars,
                   config, now, request_history, lock>>

\* line 110 and the end of the with block: the bucket is fetched and the
\* lock of the RateLimiter released
FineMapFetch(t) ==
    /\ th[t].pc = "f_fetch"
    /\ Set(t, [th[t] EXCEPT !.pc = "f_block", !.bref = buckets[th[t].bkey]])
    /\ lock' = 0
    /\ UNCHANGED <<resolverVars, costVars, toolVars, fineVars, singletonVars,
                   config, now, heap, buckets, request_history>>

\* consume line 51: the lock of the bucket is taken
FineBucketLock(t) ==
    /\ th[t].pc = "f_block"
    /\ BucketLockFree(bucket_lock[th[t].bref])
    /\ bucket_lock' = [bucket_lock EXCEPT ![th[t].bref] = t]
    /\ Set(t, [th[t] EXCEPT !.pc = "f_refill"])
    /\ UNCHANGED <<resolverVars, costVars, toolVars, singletonVars, ledger, made,
                   config, now, heap, buckets, request_history, lock>>

\* consume line 52: self._refill()
FineRefill(t) ==
    /\ th[t].pc = "f_refill"
    /\ heap' = [heap EXCEPT ![th[t].bref] = Refill(@, now)]
    /\ Set(t, [th[t] EXCEPT !.pc = "f_test"])
    /\ UNCHANGED <<resolverVars, costVars, toolVars, fineVars, singletonVars,
                   config, now, buckets, request_history, lock>>

\* consume lines 54 and 57: if self.tokens >= tokens; without enough tokens
\* the lock of the bucket is released and False returned
FineTest(t) ==
    /\ th[t].pc = "f_test"
    /\ IF Sufficient(heap[th[t].bref], th[t].n)
       THEN /\ Set(t, [th[t] EXCEPT !.pc = "f_take"])
            /\ UNCHANGED <<heap, bucket_lock, ledger>>
       ELSE LET after == Refused(th[t])
                h == Collect(heap, buckets, [th EXCEPT ![t] = after])
            IN /\ Set(t, after)
               /\ heap' = h
               /\ bucket_lock' = Surviving(h, [bucket_lock EXCEPT ![th[t].bref] = 0], 0)
               /\ ledger' = Surviving(h, ledger, NoEntry)
    /\ UNCHANGED <<resolverVars, costVars, toolVars, singletonVars, made,
                   config, now, buckets, request_history, lock>>

\* consume lines 55-56: self.tokens -= tokens, the lock of the bucket is
\* released and True returned; then line 139 of _record_request
FineTake(t) ==
    /\ th[t].pc = "f_take"
    /\ LET b == th[t].bref
           after == [th[t] EXCEPT
                       !.pc = IF th[t].bkey \in DOMAIN request_history
                              THEN "rec_append" ELSE "rec_new",
                       !.bref = 0, !.grants = @ + 1, !.taken = @ + th[t].n]
           h == Collect([heap EXCEPT ![b].tokens = @ - th[t].n], buckets,
                        [th EXCEPT ![t] = after])
       IN /\ Set(t, after)
          /\ heap' = h
          /\ bucket_lock' = Surviving(h, [bucket_lock EXCEPT ![b] = 0], 0)
          /\ ledger' = Surviving(h, [ledger EXCEPT ![b].granted = @ + th[t].n], NoEntry)
    /\ UNCHANGED <<resolverVars, costVars, toolVars, singletonVars, made,
                   config, now, buckets, request_history, lock>>

\* time.sleep is over: wait_if_needed calls acquire again (line 131)
FineWake(t) ==
    /\ th[t].pc = "sleep"
    /\ now >= th[t].wake
    /\ Set(t, [th[t] EXCEPT !.pc = "f_lock", !.bkey = BucketKey(config, th[t].key)])
    /\ UNCHANGED <<resolverVars, costVars, toolVars, fineVars, singletonVars,
                   config, now, heap, buckets, request_history, lock>>

FineNext ==
    \/ Tick
    \/ \E t \in Threads : \E c \in FineCalls(t) : FineCall(t, c)
    \/ \E t \in Threads : FineMapLock(t)
    \/ \E t \in Threads : FineMapCheck(t)
    \/ \E t \in Threads : FineMapCreate(t)
    \/ \E t \in Threads : FineMapFetch(t)
    \/ \E t \in Threads : FineBucketLock(t)
    \/ \E t \in Threads : FineRefill(t)
    \/ \E t \in Threads : FineTest(t)
    \/ \E t \in Threads : FineTake(t)
    \/ \E t \in Threads : RecNew(t)
    \/ \E t \in Threads : RecAppend(t)
    \/ \E t \in Threads : FineWake(t)

FineSpec == Init /\ [][FineNext]_vars

(***************************************************************************)
(* wait_if_needed with a single caller while time advances for ever.  The  *)
(* program's clock is unbounded; the model keeps now within 0..MaxTime by  *)
(* moving the origin of the clock once now = MaxTime: all timestamps go    *)
(* back one tick instead of now going forward.  A timestamp that is        *)
(* MaxTime ticks old stays so, which _refill cannot tell from an older one *)
(* as long as MaxTime * requests_per_second >= BurstSize: either way the   *)
(* bucket refills to its capacity.                                         *)
(***************************************************************************)
Earlier(t) == Max(0, t - 1)
WaitTick ==
    /\ IF now < MaxTime
       THEN /\ now' = now + 1
            /\ UNCHANGED <<heap, th>>
       ELSE /\ now' = now
            /\ heap' = [i \in Slots |->
                           IF heap[i] = NoBucket THEN NoBucket
                           ELSE [heap[i] EXCEPT !.last_update = Earlier(@)]]
            /\ th' = [t \in Threads |-> [th[t] EXCEPT !.wake = Earlier(@)]]
    /\ UNCHANGED <<resolverVars, costVars, toolVars, fineVars, singletonVars,
                   config, buckets, request_history, lock>>

\* the steps of thread t inside a call
Proceed(t) ==
    AcqMap(t) \/ AcqConsume(t) \/ RecNew(t) \/ RecAppend(t) \/ WaitWake(t)

\* the caller goes on calling while each history holds fewer than MaxRecords
\* timestamps
MaxRecords == 2
MayCall == \A k \in DOMAIN request_history : request_history[k] < MaxRecords

SoleAcquire(c) == MayCall /\ CallAcquire(1, c)
SoleWait(c) == MayCall /\ CallWait(1, c)

WaitNext ==
    \/ WaitTick
    \/ \E c \in Calls(1) : SoleAcquire(c)
    \/ \E c \in Calls(1) : SoleWait(c)
    \/ AcqMap(1)
    \/ AcqConsume(1)
    \/ RecNew(1)
    \/ RecAppend(1)
    \/ WaitWake(1)

\* the clock advances and a thread inside a call is scheduled again
WaitSpec ==
    Init /\ [][WaitNext]_vars /\ WF_vars(WaitTick) /\ WF_vars(Proceed(1))

(***************************************************************************)
(* profiles_to_use: the account resolver                                   *)
(***************************************************************************)
Ids == {"1", "2"}
Names == {"dev", "prod"}
\* a token that is neither a name nor an id of any account
Bogus == "bogus"

SeqsUpTo(S, n) == UNION {[1..k -> S] : k \in 0..n}

\* What `az account list` can return: subscriptions with distinct ids; two
\* subscriptions may carry the same display name.  <<>> is also what
\* get_azure_subscriptions returns when the command fails (lines 27-28).
AzureDirectories ==
    {d \in SeqsUpTo([id : Ids, name : Names], Cardinality(Ids)) :
        \A i, j \in DOMAIN d : d[i].id = d[j].id => i = j}

\* What boto3 knows: profiles with distinct names; two profiles may belong
\* to the same account.  sts is what get_caller_identity does for the
\* profile: "ok" returns the account id, "raise" raises, "none" returns a
\* response without an Account.
AwsDirectories ==
    {d \in SeqsUpTo([id : Ids, name : Names, sts : {"ok", "raise", "none"}],
                    Cardinality(Names)) :
        \A i, j \in DOMAIN d : d[i].name = d[j].name => i = j}

NoSub == [id |-> "", name |-> ""]

\* subscription_lookup (util.py lines 56-61): the names first, then the ids
\* on top of them; a later entry replaces an earlier one with the same key
Last(d, S) == d[CHOOSE i \in S : \A j \in S : j <= i]
InLookup(d, tok) == \E i \in DOMAIN d : d[i].id = tok \/ d[i].name = tok
SubscriptionLookup(d, tok) ==
    IF \E i \in DOMAIN d : d[i].id = tok
    THEN Last(d, {i \in DOMAIN d : d[i].id = tok})
    ELSE IF \E i \in DOMAIN d : d[i].name = tok
         THEN Last(d, {i \in DOMAIN d : d[i].name = tok})
         ELSE NoSub

\* defaultdict(list)[id].append(name) on the ordered dict g
AddNameFirstOnly(g, id, name) ==
    IF \E i \in DOMAIN g : g[i].id = id THEN g
    ELSE Append(g, [id |-> id, names |-> <<name>>])
AddName(g, id, name) ==
    IF \E i \in DOMAIN g : g[i].id = id
    THEN [i \in DOMAIN g |->
            IF g[i].id = id THEN [g[i] EXCEPT !.names = Append(@, name)] ELSE g[i]]
    ELSE Append(g, [id |-> id, names |-> <<name>>])

\* util.py lines 69-75: one turn of the loop over subscriptions_to_query
AzureStepStops(d, acc, tok) ==
    IF InLookup(d, tok)
    THEN LET sub == SubscriptionLookup(d, tok) IN
         [acc EXCEPT !.groups = AddName(@, sub.id, sub.name)]
    ELSE [groups |-> <<>>,
          errors |-> DictPut(acc.errors, <<"Error processing profile", tok>>,
                             <<"Subscription does not exist.", tok>>)]
AzureStep(d, acc, tok) ==
    IF InLookup(d, tok)
    THEN LET sub == SubscriptionLookup(d, tok) IN
         [acc EXCEPT !.groups = AddName(@, sub.id, sub.name)]
    ELSE [acc EXCEPT !.errors =
            DictPut(@, <<"Error processing profile", tok>>,
                    <<"Subscription does not exist.", tok>>)]

RECURSIVE AzureLoop(_, _, _)
AzureLoop(d, toks, acc) ==
    IF toks = <<>> THEN acc
    ELSE AzureLoop(d, Tail(toks), AzureStep(d, acc, Head(toks)))

\* util.py lines 63-66: subscriptions_to_query
AllNames(d) == [i \in DOMAIN d |-> d[i].name]
SubscriptionsToQuery(d, profs, all) == IF all THEN AllNames(d) ELSE profs

\* profiles_to_use of util.py (lines 47-77)
ProfilesToUseAzure(d, profs, all) ==
    IF d = <<>>
    THEN [groups |-> <<>>,
          errors |-> DictPut(EmptyDict, <<"Error">>, <<"No Azure subscriptions found.">>)]
    ELSE AzureLoop(d, SubscriptionsToQuery(d, profs, all),
                   [groups |-> <<>>, errors |-> EmptyDict])

\* helpers/profiles.py lines 30-40: one turn of the loop over profiles
Available(d, tok) == \E i \in DOMAIN d : d[i].name = tok
AwsStep(d, acc, tok) ==
    IF Available(d, tok)
    THEN LET p == Last(d, {i \in DOMAIN d : d[i].name = tok}) IN
         CASE p.sts = "ok" -> [acc EXCEPT !.groups = AddName(@, p.id, tok)]
           [] p.sts = "raise" ->
                [acc EXCEPT !.errors =
                    DictPut(@, <<"Error processing profile", tok>>, <<"exception">>)]
           [] OTHER -> acc
    ELSE [acc EXCEPT !.errors =
            DictPut(@, <<"Error processing for profile", tok>>,
                    <<"Profile does not exist.", tok>>)]

RECURSIVE AwsLoop(_, _, _)
AwsLoop(d, toks, acc) ==
    IF toks = <<>> THEN acc
    ELSE AwsLoop(d, Tail(toks), AwsStep(d, acc, Head(toks)))

\* profiles_to_use of helpers/profiles.py (lines 23-42)
ProfilesToUseAws(d, profs) ==
    AwsLoop(d, profs, [groups |-> <<>>, errors |-> EmptyDict])

\* no call of the rate limiter
LimiterIdle ==
    /\ config = [enabled |-> TRUE, per_subscription |-> TRUE]
    /\ LimiterInit
    /\ SingletonIdle

\* a call of profiles_to_use with any arguments against any directory
ResolverInit ==
    /\ LimiterIdle
    /\ CostIdle
    /\ ToolsIdle
    /\ rpc = "call"
    /\ groups = <<>>
    /\ profile_errors = EmptyDict
    /\ \/ /\ impl = "azure"
          /\ directory \in AzureDirectories
          /\ profiles \in SeqsUpTo(Names \cup Ids \cup {Bogus}, MaxProfiles)
          /\ all_profiles \in BOOLEAN
       \/ /\ impl = "aws"
          /\ directory \in AwsDirectories
          /\ profiles \in SeqsUpTo(Names \cup {Bogus}, MaxProfiles)
          /\ all_profiles = FALSE

RunAzure ==
    /\ rpc = "call" /\ impl = "azure"
    /\ LET r == ProfilesToUseAzure(directory, profiles, all_profiles) IN
       /\ groups' = r.groups
       /\ profile_errors' = r.errors
    /\ rpc' = "done"
    /\ UNCHANGED <<fineVars, singletonVars, limiterVars, toolVars, costVars, impl, directory, profiles, all_profiles>>

RunAws ==
    /\ rpc = "call" /\ impl = "aws"
    /\ LET r == ProfilesToUseAws(directory, profiles) IN
       /\ groups' = r.groups
       /\ profile_errors' = r.errors
    /\ rpc' = "done"
    /\ UNCHANGED <<fineVars, singletonVars, limiterVars, toolVars, costVars, impl, directory, profiles, all_profiles>>

ResolverNext == RunAzure \/ RunAws

ResolverSpec == ResolverInit /\ [][ResolverNext]_vars

(***************************************************************************)
(* get_cost (aws-finops-mcp-server.py)                                     *)
(***************************************************************************)
\* date.today(), as a day number, in a calendar of DaysInMonth-day months
Today == 33
DaysInMonth == 30
\* today.replace(day=1)
MonthStart(d) == d - ((d - 1) % DaysInMonth)

\* Python truth of the optional arguments: None (and "") is false
GivenDate(x) == x.kind # "none"
\* `not time_range_days`: None and 0 are false
TruthyDays(x) == x.given /\ x.v # 0

WindowError(msg) == [status |-> "error", message |-> msg, start |-> 0, end |-> 0, api_end |-> 0]
OkWindow(a, b) == [status |-> "ok", message |-> "", start |-> a, end |-> b, api_end |-> b + 1]
\* ResolveWindow without the comparison of line 76
ResolveWindowUnordered(days, start, end, today) ==
    IF GivenDate(start) /\ GivenDate(end)
    THEN IF start.kind = "bad" \/ end.kind = "bad"
         THEN WindowError("Invalid date format. Use YYYY-MM-DD.")
         ELSE OkWindow(start.day, end.day)
    ELSE IF days.given
         THEN IF days.v <= 0
              THEN WindowError("time_range_days must be positive.")
              ELSE OkWindow(today - (days.v - 1), today)
         ELSE OkWindow(MonthStart(today), today)
\* ResolveWindow with the day count tested before the dates
ResolveWindowDaysFirst(days, start, end, today) ==
    IF days.given
    THEN IF days.v <= 0
         THEN WindowError("time_range_days must be positive.")
         ELSE OkWindow(today - (days.v - 1), today)
    ELSE IF GivenDate(start) /\ GivenDate(end)
         THEN IF start.kind = "bad" \/ end.kind = "bad"
              THEN WindowError("Invalid date format. Use YYYY-MM-DD.")
              ELSE IF start.day > end.day
                   THEN WindowError("Start date cannot be after end date.")
                   ELSE OkWindow(start.day, end.day)
         ELSE OkWindow(MonthStart(today), today)
\* lines 71-89: the period of the query, or the error get_cost returns
ResolveWindow(days, start, end, today) ==
    IF GivenDate(start) /\ GivenDate(end)
    THEN IF start.kind = "bad" \/ end.kind = "bad"
         THEN WindowError("Invalid date format. Use YYYY-MM-DD.")
         ELSE IF start.day > end.day
              THEN WindowError("Start date cannot be after end date.")
              ELSE [status |-> "ok", message |-> "", start |-> start.day,
                    end |-> end.day, api_end |-> end.day + 1]
    ELSE IF days.given
         THEN IF days.v <= 0
              THEN WindowError("time_range_days must be positive.")
              ELSE [status |-> "ok", message |-> "", start |-> today - (days.v - 1),
                    end |-> today, api_end |-> today + 1]
         ELSE [status |-> "ok", message |-> "", start |-> MonthStart(today),
               end |-> today, api_end |-> today + 1]

\* Granularity looking at the dates only
GranularityByDates(days, start, end) ==
    IF ~(GivenDate(start) /\ GivenDate(end)) THEN "MONTHLY" ELSE "DAILY"
\* line 94: the granularity of the total-cost query
Granularity(days, start, end) ==
    IF ~TruthyDays(days) /\ ~(GivenDate(start) /\ GivenDate(end))
    THEN "MONTHLY" ELSE "DAILY"
\* lines 107-109: the granularity of the per-service query
ServiceGranularity(days, start, end) ==
    IF ~TruthyDays(days) /\ ~(GivenDate(start) /\ GivenDate(end))
    THEN "MONTHLY" ELSE "DAILY"

\* lines 92-97 and 111-117: a get_cost_and_usage call
Query(profile, days, start, end, w, grouped) ==
    [profile |-> profile,
     granularity |-> IF grouped THEN ServiceGranularity(days, start, end)
                     ELSE Granularity(days, start, end),
     start |-> w.start, end |-> w.api_end, grouped |-> grouped]

\* lines 130-138 and 141-145: the entries of cost_data
SuccessEntry(profile, account, w) ==
    [profile_name |-> profile, account_id |-> account, status |-> "success",
     period_start_date |-> w.start, period_end_date |-> w.end]
ErrorEntry(profile) ==
    [profile_name |-> profile, account_id |-> "", status |-> "error",
     period_start_date |-> 0, period_end_date |-> 0]

\* lines 140-145: the except clause writes the account's error entry
OnExceptionForgets(cd, profile) == DictPut(EmptyDict, profile, ErrorEntry(profile))
OnException(cd, profile) == DictPut(cd, profile, ErrorEntry(profile))

\* the profiles and accounts of the get_cost runs: three profiles, of three
\* accounts or of two
CostNames == {"dev", "prod", "test"}
CostDirectories ==
    {<<[id |-> "1", name |-> "dev", sts |-> "ok"],
       [id |-> "2", name |-> "prod", sts |-> "ok"],
       [id |-> "3", name |-> "test", sts |-> "ok"]>>,
     <<[id |-> "1", name |-> "dev", sts |-> "ok"],
       [id |-> "1", name |-> "prod", sts |-> "ok"],
       [id |-> "2", name |-> "test", sts |-> "raise"]>>}
\* what an account's turn of the loop meets: all calls succeed, the session
\* or its identity call raises (lines 46-48), the first or the second
\* get_cost_and_usage raises (lines 92, 111)
Outcomes == {"ok", "raise_session", "raise_query1", "raise_query2"}

\* a call of get_cost with any arguments
CostInit ==
    /\ LimiterIdle
    /\ ToolsIdle
    /\ impl = "aws"
    /\ directory \in CostDirectories
    /\ profiles \in SeqsUpTo(CostNames \cup {Bogus}, MaxProfiles)
    /\ all_profiles = FALSE
    /\ rpc = "call"
    /\ groups = <<>>
    /\ profile_errors = EmptyDict
    /\ time_range_days \in {NoDays, Days(-1), Days(0), Days(1), Days(3)}
    /\ \E s, e \in {NoDate, BadDate, Date(Today - 3), Date(Today)} :
          start_date_iso = s /\ end_date_iso = e
    /\ cpc = "call"
    /\ idx = 0
    /\ cost_data = EmptyDict
    /\ result = Pending
    /\ queries = <<>>
    /\ outcomes = <<>>
    /\ writes = EmptyDict

\* lines 36-40: resolve the profiles; without a group, return the error
GetCostResolve ==
    /\ cpc = "call"
    /\ LET r == ProfilesToUseAws(directory, profiles) IN
       /\ groups' = r.groups
       /\ profile_errors' = r.errors
       /\ IF r.groups = <<>>
          THEN /\ result' = [kind |-> "error", message |-> "No valid profiles found."]
               /\ cpc' = "done"
          ELSE /\ result' = result
               /\ cpc' = "loop"
    /\ rpc' = "done"
    /\ idx' = 1
    /\ UNCHANGED <<fineVars, singletonVars, limiterVars, toolVars, impl, directory, profiles, all_profiles,
                   time_range_days, start_date_iso, end_date_iso, cost_data,
                   queries, outcomes, writes>>

Bump(w, k) == DictPut(w, k, IF k \in DOMAIN w THEN w[k] + 1 ELSE 1)

\* lines 42-145: the turn of the loop for the next account, meeting outcome o
CostAccount(o) ==
    /\ cpc = "loop"
    /\ idx <= Len(groups)
    /\ LET primary == groups[idx].names[1]
           w == ResolveWindow(time_range_days, start_date_iso, end_date_iso, Today)
           q1 == Query(primary, time_range_days, start_date_iso, end_date_iso, w, FALSE)
           q2 == Query(primary, time_range_days, start_date_iso, end_date_iso, w, TRUE)
       IN
       IF o = "raise_session"
       THEN /\ cost_data' = OnException(cost_data, primary)
            /\ writes' = Bump(writes, primary)
            /\ outcomes' = Append(outcomes, o)
            /\ idx' = idx + 1
            /\ UNCHANGED <<fineVars, singletonVars, cpc, result, queries>>
       ELSE IF w.status = "error"
       THEN \* lines 77, 79, 82: get_cost returns from inside the loop
            /\ result' = [kind |-> "window_error", profile_name |-> primary,
                          message |-> w.message]
            /\ cpc' = "done"
            /\ outcomes' = Append(outcomes, "window_error")
            /\ UNCHANGED <<fineVars, singletonVars, idx, cost_data, queries, writes>>
       ELSE /\ queries' = CASE o = "raise_query1" -> Append(queries, q1)
                            [] OTHER -> Append(Append(queries, q1), q2)
            /\ cost_data' = IF o = "ok"
                            THEN DictPut(cost_data, primary,
                                         SuccessEntry(primary, groups[idx].id, w))
                            ELSE OnException(cost_data, primary)
            /\ writes' = Bump(writes, primary)
            /\ outcomes' = Append(outcomes, o)
            /\ idx' = idx + 1
            /\ UNCHANGED <<fineVars, singletonVars, cpc, result>>
    /\ UNCHANGED <<fineVars, singletonVars, limiterVars, toolVars, resolverVars, time_range_days, start_date_iso,
                   end_date_iso>>

\* line 146: the report
CostReturn ==
    /\ cpc = "loop"
    /\ idx > Len(groups)
    /\ result' = [kind |-> "report", accounts_cost_data |-> cost_data,
                  errors_for_profiles |-> profile_errors]
    /\ cpc' = "done"
    /\ UNCHANGED <<fineVars, singletonVars, limiterVars, toolVars, resolverVars, time_range_days, start_date_iso,
                   end_date_iso, idx, cost_data, queries, outcomes, writes>>

CostNext ==
    \/ GetCostResolve
    \/ \E o \in Outcomes : CostAccount(o)
    \/ CostReturn

CostSpec == CostInit /\ [][CostNext]_vars

(***************************************************************************)
(* The cost breakdown of get_cost (aws-finops-mcp-server.py lines 119-128) *)
(***************************************************************************)
\* amounts are counted in units of 0.0005: 0.001 is 2 units, a cent is 20
NoiseThreshold == 2
CentUnits == 20
MaxGroups == 3
Services == {"Compute", "Storage", "Network"}
\* a credit, half the threshold, the threshold, and more
GroupAmounts == {0 - 1, 1, 2, 3, 4}
\* a group of a sub-period: Keys[0] and Metrics.UnblendedCost.Amount
ResultGroups == [Key : Services, Amount : GroupAmounts]
\* a response: two sub-periods sharing the groups f, the first c of them
\* in the first
Response(f, c) == <<[Groups |-> SubSeq(f, 1, c)], [Groups |-> SubSeq(f, c + 1, Len(f))]>>

\* line 125: aggregated_service_costs[service] += amount, on a defaultdict;
\* the dict is a sequence of [key, amount] in insertion order
Accumulate(agg, g) ==
    IF \E i \in DOMAIN agg : agg[i].key = g.Key
    THEN [i \in DOMAIN agg |->
             IF agg[i].key = g.Key
             THEN [key |-> g.Key, amount |-> agg[i].amount + g.Amount]
             ELSE agg[i]]
    ELSE Append(agg, [key |-> g.Key, amount |-> g.Amount])

RECURSIVE AccumulateAll(_, _)
\* line 122: the groups of one sub-period, in order
AccumulateAll(agg, gs) ==
    IF gs = <<>> THEN agg
    ELSE AccumulateAll(Accumulate(agg, Head(gs)), Tail(gs))

RECURSIVE Aggregated(_, _)
\* lines 119-125: the sub-periods, in order
Aggregated(agg, rs) ==
    IF rs = <<>> THEN agg
    ELSE Aggregated(AccumulateAll(agg, Head(rs).Groups), Tail(rs))

\* Before with an entry of equal amount overtaken
BeforeOrEqual(a, b) == a.amount >= b.amount
\* the order of sorted(..., key=item[1], reverse=True): b, which came later
\* in the dict, goes before a only when its amount is larger
Before(a, b) == a.amount > b.amount

RECURSIVE InsertSorted(_, _)
\* e, which came after every entry of srt, takes its place among them
InsertSorted(srt, e) ==
    IF srt = <<>> THEN <<e>>
    ELSE IF Before(e, Head(srt)) THEN <<e>> \o srt
         ELSE <<Head(srt)>> \o InsertSorted(Tail(srt), e)

RECURSIVE Sorted(_)
\* line 127: the stable sort, by amount, descending
Sorted(agg) ==
    IF agg = <<>> THEN <<>>
    ELSE InsertSorted(Sorted(SubSeq(agg, 1, Len(agg) - 1)), agg[Len(agg)])

\* line 128: if v > 0.001
Kept(v) == v > NoiseThreshold
\* line 128: round(v, 2), to the nearest cent, a tie to the even cent
Round2(v) ==
    LET q == v \div CentUnits
        r == v % CentUnits
    IN  IF 2 * r > CentUnits \/ (2 * r = CentUnits /\ q % 2 = 1)
        THEN (q + 1) * CentUnits ELSE q * CentUnits

RECURSIVE Processed(_)
\* line 128: the entries kept, in the order of the sort, rounded
Processed(srt) ==
    IF srt = <<>> THEN <<>>
    ELSE IF Kept(Head(srt).amount)
         THEN <<[key |-> Head(srt).key, amount |-> Round2(Head(srt).amount)]>>
              \o Processed(Tail(srt))
         ELSE Processed(Tail(srt))

\* lines 119-128
ProcessedServiceCosts(rs) == Processed(Sorted(Aggregated(<<>>, rs)))

\* a response of the per-service query
BreakdownInit ==
    /\ LimiterIdle /\ ResolverIdle /\ CostIdle /\ FilterIdle /\ InspectIdle
    /\ \E n \in 0..MaxGroups : \E f \in [1..n -> ResultGroups] : \E c \in 0..n :
          response = Response(f, c)
    /\ breakdown = [done |-> FALSE, entries |-> <<>>]

BuildBreakdown ==
    /\ ~breakdown.done
    /\ breakdown' = [done |-> TRUE, entries |-> ProcessedServiceCosts(response)]
    /\ UNCHANGED <<fineVars, singletonVars, limiterVars, resolverVars, costVars, response, tags, dimensions,
                   query_kwargs, subscription, inspected>>

BreakdownNext == BuildBreakdown

BreakdownSpec == BreakdownInit /\ [][BreakdownNext]_vars

(***************************************************************************)
(* Filter construction: cost_filters (util.py lines 426-478) and the tag  *)
(* filters of get_cost (aws-finops-mcp-server.py lines 50-64)             *)
(***************************************************************************)
MaxFilters == 2
\* a string is the sequence of its pieces, "=" being a piece of its own
FilterStrings ==
    {<<"env", "=", "prod">>, <<"team">>, <<"a", "=", "b", "=", "c">>,
     <<"REGION", "=", "eastus">>, <<"SERVICE", "=", "vm">>,
     <<"INSTANCE_TYPE", "=", "d2">>, <<"RESOURCE_ID", "=", "r1">>}

\* "=" in s
HasEq(str) == \E i \in DOMAIN str : str[i] = "="
\* s.split("=", 1), for a string with "=" in it
EqAt(str) == CHOOSE i \in DOMAIN str : str[i] = "=" /\ \A j \in 1..(i - 1) : str[j] # "="
SplitKey(str) == SubSeq(str, 1, EqAt(str) - 1)
SplitValue(str) == SubSeq(str, EqAt(str) + 1, Len(str))

\* util.py lines 455-461: azure_dim_map.get(key, key)
AzureDimMap(key) ==
    CASE key = <<"REGION">> -> <<"ResourceLocation">>
      [] key = <<"SERVICE">> -> <<"ServiceName">>
      [] key = <<"INSTANCE_TYPE">> -> <<"MeterSubcategory">>
      [] key = <<"RESOURCE_ID">> -> <<"ResourceId">>
      [] OTHER -> key

\* util.py lines 442-448, 462-468: one constraint
AzureConstraint(type, name, value) ==
    [type |-> type, name |-> name, operator |-> "In", values |-> <<value>>]
\* aws-finops-mcp-server.py line 55: one tag filter
AwsTagFilter(key, value) == [Key |-> key, Values |-> <<value>>]

RECURSIVE TagFilters(_, _)
\* util.py lines 438-448 (impl "azure"), aws-finops-mcp-server.py lines
\* 51-55 (impl "aws"): the strings without "=" are skipped
TagFilters(i, strs) ==
    IF strs = <<>> THEN <<>>
    ELSE IF HasEq(Head(strs))
         THEN <<IF i = "azure"
                THEN AzureConstraint("tags", SplitKey(Head(strs)), SplitValue(Head(strs)))
                ELSE AwsTagFilter(SplitKey(Head(strs)), SplitValue(Head(strs)))>>
              \o TagFilters(i, Tail(strs))
         ELSE TagFilters(i, Tail(strs))

RECURSIVE DimensionFilters(_)
\* util.py lines 450-468
DimensionFilters(strs) ==
    IF strs = <<>> THEN <<>>
    ELSE IF HasEq(Head(strs))
         THEN <<AzureConstraint("dimension", AzureDimMap(SplitKey(Head(strs))),
                                SplitValue(Head(strs)))>>
              \o DimensionFilters(Tail(strs))
         ELSE DimensionFilters(Tail(strs))

\* the combination that wraps a single constraint too
CombineAlwaysAnd(i, fl) ==
    IF fl = <<>> THEN EmptyDict
    ELSE IF i = "azure" THEN DictPut(EmptyDict, "filter", [and |-> fl])
         ELSE DictPut(EmptyDict, "Filter", [And |-> [k \in DOMAIN fl |-> [Tags |-> fl[k]]]])
\* util.py lines 470-476, aws-finops-mcp-server.py lines 56-64
Combine(i, fl) ==
    IF Len(fl) = 1
    THEN IF i = "azure" THEN DictPut(EmptyDict, "filter", fl[1])
         ELSE DictPut(EmptyDict, "Filter", [Tags |-> fl[1]])
    ELSE IF Len(fl) > 1
         THEN IF i = "azure" THEN DictPut(EmptyDict, "filter", [and |-> fl])
              ELSE DictPut(EmptyDict, "Filter", [And |-> [k \in DOMAIN fl |-> [Tags |-> fl[k]]]])
         ELSE EmptyDict

\* cost_filters(tags, dimensions); cost_explorer_kwargs of get_cost
CostFilters(i, tgs, dims) ==
    Combine(i, TagFilters(i, tgs) \o (IF i = "azure" THEN DimensionFilters(dims) ELSE <<>>))

\* the resolver not in use, i the implementation at hand
ResolverOff(i) ==
    /\ impl = i
    /\ directory = <<>>
    /\ profiles = <<>>
    /\ all_profiles = FALSE
    /\ rpc = "idle"
    /\ groups = <<>>
    /\ profile_errors = EmptyDict

\* a call with any tags and, for cost_filters, any dimensions
FilterInit ==
    /\ LimiterIdle /\ CostIdle /\ BreakdownIdle /\ InspectIdle
    /\ \E i \in {"azure", "aws"} : ResolverOff(i)
    /\ \E n \in 0..MaxFilters : tags \in [1..n -> FilterStrings]
    /\ \E n \in 0..(IF impl = "azure" THEN MaxFilters ELSE 0) :
          dimensions \in [1..n -> FilterStrings]
    /\ query_kwargs = [done |-> FALSE, kwargs |-> EmptyDict]

BuildFilters ==
    /\ ~query_kwargs.done
    /\ impl \in {"azure", "aws"}
    /\ query_kwargs' = [done |-> TRUE, kwargs |-> CostFilters(impl, tags, dimensions)]
    /\ UNCHANGED <<fineVars, singletonVars, limiterVars, resolverVars, costVars, response, breakdown, tags,
                   dimensions, subscription, inspected>>

FilterNext == BuildFilters

FilterSpec == FilterInit /\ [][FilterNext]_vars

(***************************************************************************)
(* The inspectors of a subscription: disk_operations.py, vm_operations.py  *)
(* (lib "ops") and util.py (lib "util")                                    *)
(***************************************************************************)
MaxDisks == 2
\* a name is the sequence of its pieces, a prefix being a piece of its own
StartsWith(str, prefix) == Len(str) >= 1 /\ str[1] = prefix
None == <<"None">>
\* the id of a resource, split at "/": the resource group is the piece at
\* index 4
ResourceId(rg, name) ==
    <<<<>>, <<"subscriptions">>, <<"s1">>, <<"resourceGroups">>, rg,
      <<"providers">>, <<"Microsoft.Compute">>, <<"disks">>, name>>
Disk(name, rg, location, managed_by, disk_state) ==
    [name |-> name, id |-> ResourceId(rg, name), location |-> location,
     managed_by |-> managed_by, disk_state |-> disk_state,
     disk_size_gb |-> 100, sku |-> [name |-> "Standard_LRS"],
     time_created |-> <<"2024-01-01">>]
\* the kinds of disks: a "pvc-" name or not, an "MC_" resource group or
\* not, unattached in one of two regions or attached
DiskKinds ==
    [prefix : {"pvc-", "data"}, rg : {"MC_", "rg"},
     at : {<<"eastus", None, "Unattached">>, <<"westus", None, "Unattached">>,
           <<"eastus", <<"vm1">>, "Attached">>}]
\* the i-th disk of the subscription, of kind k
DiskOf(k, i) == Disk(<<k.prefix, i>>, <<k.rg, "g">>, k.at[1], k.at[2], k.at[3])

\* `regions and location not in regions`
FilteredOut(regions, location) ==
    regions # <<>> /\ \A i \in DOMAIN regions : regions[i] # location
ResourceGroup(id) == id[5]

\* Category with the resource group tested first
CategoryGroupFirst(name, rg) ==
    IF StartsWith(rg, "MC_") THEN "aks_managed"
    ELSE IF StartsWith(name, "pvc-") THEN "pvc"
         ELSE "orphaned"
\* disk_operations.py lines 64-75, 150-158; util.py lines 193-207, 291-303
Category(name, rg) ==
    IF StartsWith(name, "pvc-") THEN "pvc"
    ELSE IF StartsWith(rg, "MC_") THEN "aks_managed"
         ELSE "orphaned"

\* Included for a caller that gets every category
IncludedAlways(category, include_pvc, include_aks_managed) == TRUE
\* disk_operations.py lines 66, 70, 75; util.py lines 196, 202, 207
Included(category, include_pvc, include_aks_managed) ==
    CASE category = "pvc" -> include_pvc
      [] category = "aks_managed" -> include_aks_managed
      [] OTHER -> TRUE

\* Enumerated for a handler that starts over from an empty result
EnumeratedNothing(items, fail_at) == IF fail_at = 0 THEN items ELSE <<>>
\* the items the loop body ran for: with fail_at = k > 0 the enumeration
\* raises in place of its k-th item (the client, the listing or the body)
Enumerated(items, fail_at) ==
    IF fail_at = 0 THEN items ELSE SubSeq(items, 1, Min(fail_at, Len(items) + 1) - 1)

DictAppend(d, k, v) == DictPut(d, k, IF k \in DOMAIN d THEN Append(d[k], v) ELSE <<v>>)
RECURSIVE CountAll(_, _)
\* sum(len(v) for v in d.values()), over the keys ks of d
CountAll(d, ks) ==
    IF ks = {} THEN 0
    ELSE LET k == CHOOSE k \in ks : TRUE IN Len(d[k]) + CountAll(d, ks \ {k})

\* disk_operations.py lines 54-61
OpsDiskInfo(d) ==
    [name |-> d.name, resource_group |-> ResourceGroup(d.id), location |-> d.location,
     size_gb |-> d.disk_size_gb, sku |-> d.sku.name, id |-> d.id]

\* disk_operations.py lines 46-75: the body of the loop, for disk d; a holds
\* the arguments of the call
OpsDisksStep(acc, d, a) ==
    IF FilteredOut(a.regions, d.location) \/ d.managed_by # None THEN acc
    ELSE LET c == Category(d.name, ResourceGroup(d.id)) IN
         [categories |-> [acc.categories EXCEPT ![c] = Append(@, OpsDiskInfo(d))],
          unattached_disks |->
             IF Included(c, a.include_pvc, a.include_aks_managed)
             THEN Append(acc.unattached_disks, OpsDiskInfo(d))
             ELSE acc.unattached_disks]

RECURSIVE OpsDisksLoop(_, _, _)
OpsDisksLoop(acc, ds, a) ==
    IF ds = <<>> THEN acc
    ELSE OpsDisksLoop(OpsDisksStep(acc, Head(ds), a), Tail(ds), a)

\* disk_operations.py lines 12-90: get_unattached_disks
OpsUnattachedDisks(ds, a, fail_at) ==
    LET acc == OpsDisksLoop([categories |-> [orphaned |-> <<>>, pvc |-> <<>>,
                                             aks_managed |-> <<>>],
                             unattached_disks |-> <<>>],
                            Enumerated(ds, fail_at), a)
        c == acc.categories
    IN  [result |->
            [unattached_disks |-> acc.unattached_disks,
             categories |-> c,
             statistics |->
                [total_unattached |-> Len(c.orphaned) + Len(c.pvc) + Len(c.aks_managed),
                 orphaned_count |-> Len(c.orphaned),
                 pvc_count |-> Len(c.pvc),
                 aks_managed_count |-> Len(c.aks_managed),
                 included_in_results |-> Len(acc.unattached_disks)]],
         errors |-> IF fail_at = 0 THEN EmptyDict
                    ELSE DictPut(EmptyDict, "unattached_disks",
                                 "Failed to get unattached disks")]

\* util.py lines 185-190, and the note of lines 197, 203, which is set on
\* the dict that the lists share
UtilDiskInfo(d, c, included) ==
    LET info == [DiskName |-> d.name, DiskSize |-> <<d.disk_size_gb, " GB">>,
                 DiskType |-> d.sku.name, ResourceGroup |-> ResourceGroup(d.id)]
    IN  IF c = "pvc" /\ included
        THEN [f \in DOMAIN info \cup {"Note"} |->
                 IF f = "Note" THEN "Kubernetes PVC - Manage via kubectl" ELSE info[f]]
        ELSE IF c = "aks_managed" /\ included
             THEN [f \in DOMAIN info \cup {"Note"} |->
                      IF f = "Note" THEN "AKS-managed resource group" ELSE info[f]]
             ELSE info

\* util.py lines 175-207: the body of the loop
UtilDisksStep(acc, d, a) ==
    IF FilteredOut(a.regions, d.location) \/ d.disk_state # "Unattached" THEN acc
    ELSE LET c == Category(d.name, ResourceGroup(d.id))
             inc == Included(c, a.include_pvc, a.include_aks_managed)
             info == UtilDiskInfo(d, c, inc)
         IN  [unattached_disks |-> IF inc THEN DictAppend(acc.unattached_disks, d.location, info)
                                   ELSE acc.unattached_disks,
              pvc_disks |-> IF c = "pvc" THEN DictAppend(acc.pvc_disks, d.location, info)
                            ELSE acc.pvc_disks,
              aks_managed_disks |-> IF c = "aks_managed"
                                    THEN DictAppend(acc.aks_managed_disks, d.location, info)
                                    ELSE acc.aks_managed_disks]

RECURSIVE UtilDisksLoop(_, _, _)
UtilDisksLoop(acc, ds, a) ==
    IF ds = <<>> THEN acc
    ELSE UtilDisksLoop(UtilDisksStep(acc, Head(ds), a), Tail(ds), a)

\* util.py lines 144-220: get_unattached_disks; the "Info" entry is the
\* sequence of its parts
UtilUnattachedDisks(ds, a, fail_at) ==
    LET acc == UtilDisksLoop([unattached_disks |-> EmptyDict, pvc_disks |-> EmptyDict,
                              aks_managed_disks |-> EmptyDict],
                             Enumerated(ds, fail_at), a)
        e0 == IF fail_at = 0 THEN EmptyDict ELSE DictPut(EmptyDict, "Error", <<"raised">>)
        e1 == IF acc.pvc_disks # EmptyDict /\ ~a.include_pvc
              THEN DictPut(e0, "Info",
                           <<<<"Filtered out", CountAll(acc.pvc_disks, DOMAIN acc.pvc_disks),
                               "PVC disks">>>>)
              ELSE e0
        e2 == IF acc.aks_managed_disks # EmptyDict /\ ~a.include_aks_managed
              THEN DictPut(e1, "Info",
                           (IF "Info" \in DOMAIN e1 THEN e1["Info"] ELSE <<>>)
                           \o <<<<"Filtered out",
                                  CountAll(acc.aks_managed_disks, DOMAIN acc.aks_managed_disks),
                                  "AKS-managed disks">>>>)
              ELSE e1
    IN  [result |-> acc.unattached_disks, errors |-> e2]

\* money is counted in cents
\* disk_operations.py lines 209-220: estimate_disk_cost
EstimateDiskCost(size_gb, sku_name) ==
    size_gb * (CASE sku_name = "Standard_LRS" -> 5
                 [] sku_name = "StandardSSD_LRS" -> 8
                 [] sku_name = "Premium_LRS" -> 15
                 [] sku_name = "UltraSSD_LRS" -> 30
                 [] OTHER -> 5)

\* disk_operations.py lines 130-147
OpsDiskDetail(d) ==
    [name |-> d.name, resource_group |-> ResourceGroup(d.id), location |-> d.location,
     size_gb |-> d.disk_size_gb, sku |-> d.sku.name,
     monthly_cost |-> EstimateDiskCost(d.disk_size_gb, d.sku.name),
     annual_cost |-> EstimateDiskCost(d.disk_size_gb, d.sku.name) * 12,
     id |-> d.id, created_time |-> d.time_created]

OpsAuditList(c) ==
    CASE c = "pvc" -> "pvc_disks"
      [] c = "aks_managed" -> "aks_managed_disks"
      [] OTHER -> "orphaned_disks"

\* disk_operations.py line 123, 161-163: disk_type_stats[sku_name]
SkuStats(stats, sku_name, size_gb, cost) ==
    LET old == IF sku_name \in DOMAIN stats THEN stats[sku_name]
               ELSE [count |-> 0, total_gb |-> 0, cost |-> 0]
    IN  DictPut(stats, sku_name, [count |-> old.count + 1,
                                  total_gb |-> old.total_gb + size_gb,
                                  cost |-> old.cost + cost])

\* disk_operations.py lines 126-164: the body of the loop
OpsAuditStep(acc, d, a) ==
    IF FilteredOut(a.regions, d.location) \/ d.managed_by # None THEN acc
    ELSE LET l == OpsAuditList(Category(d.name, ResourceGroup(d.id)))
             cost == EstimateDiskCost(d.disk_size_gb, d.sku.name)
         IN  [lists |-> [acc.lists EXCEPT ![l] = Append(@, OpsDiskDetail(d))],
              disk_type_stats |-> SkuStats(acc.disk_type_stats, d.sku.name,
                                           d.disk_size_gb, cost),
              total_cost |-> acc.total_cost + cost]

RECURSIVE OpsAuditLoop(_, _, _)
OpsAuditLoop(acc, ds, a) ==
    IF ds = <<>> THEN acc
    ELSE OpsAuditLoop(OpsAuditStep(acc, Head(ds), a), Tail(ds), a)

RECURSIVE SumField(_, _)
\* sum(d[field] for d in ds)
SumField(ds, field) ==
    IF ds = <<>> THEN 0 ELSE Head(ds)[field] + SumField(Tail(ds), field)

\* disk_operations.py lines 167-184
OpsAuditSummary(lists, total_cost) ==
    [total_unattached_disks |-> Len(lists.orphaned_disks) + Len(lists.pvc_disks)
                                + Len(lists.aks_managed_disks),
     orphaned_count |-> Len(lists.orphaned_disks),
     pvc_count |-> Len(lists.pvc_disks),
     aks_managed_count |-> Len(lists.aks_managed_disks),
     total_monthly_cost |-> total_cost,
     total_annual_cost |-> total_cost * 12,
     orphaned_monthly_cost |-> SumField(lists.orphaned_disks, "monthly_cost"),
     orphaned_annual_cost |-> SumField(lists.orphaned_disks, "annual_cost")]

\* disk_operations.py lines 222-259: generate_disk_recommendations; a
\* recommendation is the sequence of the parts of its text
LargeDiskGB == 500
GenerateDiskRecommendations(lists, summary) ==
    (IF summary.orphaned_count > 0
     THEN <<<<"Delete", summary.orphaned_count, "orphaned disks to save",
              summary.orphaned_monthly_cost>>>> ELSE <<>>)
    \o (IF lists.pvc_disks # <<>>
        THEN <<<<"Review", Len(lists.pvc_disks), "PVC disks">>>> ELSE <<>>)
    \o (IF lists.aks_managed_disks # <<>>
        THEN <<<<"Verify", Len(lists.aks_managed_disks), "AKS-managed disks">>>> ELSE <<>>)
    \o [k \in DOMAIN SelectSeq(lists.orphaned_disks, LAMBDA x : x.size_gb > LargeDiskGB) |->
           <<"Large disk", SelectSeq(lists.orphaned_disks,
                                     LAMBDA x : x.size_gb > LargeDiskGB)[k].name>>]

\* disk_operations.py lines 92-195: get_detailed_disk_audit; when the
\* enumeration raises, summary and cost_analysis stay the empty dicts
OpsDiskAudit(ds, a, fail_at) ==
    LET acc == OpsAuditLoop([lists |-> [orphaned_disks |-> <<>>, pvc_disks |-> <<>>,
                                        aks_managed_disks |-> <<>>],
                             disk_type_stats |-> EmptyDict, total_cost |-> 0],
                            Enumerated(ds, fail_at), a)
        summary == OpsAuditSummary(acc.lists, acc.total_cost)
    IN  [result |->
            [summary |-> IF fail_at = 0 THEN summary ELSE EmptyDict,
             orphaned_disks |-> acc.lists.orphaned_disks,
             pvc_disks |-> acc.lists.pvc_disks,
             aks_managed_disks |-> acc.lists.aks_managed_disks,
             cost_analysis |->
                IF fail_at = 0
                THEN [by_sku |-> acc.disk_type_stats,
                      recommendations |-> GenerateDiskRecommendations(acc.lists, summary)]
                ELSE EmptyDict],
         errors |-> IF fail_at = 0 THEN EmptyDict
                    ELSE DictPut(EmptyDict, "disk_audit", "Failed to perform disk audit")]

\* util.py lines 254-259, 276-277: the monthly cost, 0.10 per GB for a
\* type that is not in the table
UtilMonthlyCost(size_gb, disk_type) ==
    size_gb * (CASE disk_type = "Standard_LRS" -> 5
                 [] disk_type = "StandardSSD_LRS" -> 8
                 [] disk_type = "Premium_LRS" -> 15
                 [] disk_type = "UltraSSD_LRS" -> 30
                 [] OTHER -> 10)

UtilAuditKey(c) ==
    CASE c = "pvc" -> "kubernetes_pvc"
      [] c = "aks_managed" -> "aks_managed_other"
      [] OTHER -> "truly_orphaned"
UtilAuditCount(c) ==
    CASE c = "pvc" -> "pvc_count"
      [] c = "aks_managed" -> "aks_managed_count"
      [] OTHER -> "truly_orphaned_count"
UtilManagementNote(c) ==
    CASE c = "pvc" -> "Kubernetes PVC - Check with: kubectl get pv | grep Released"
      [] c = "aks_managed" -> "AKS-managed - Review AKS cluster health"
      [] OTHER -> "Truly orphaned - Safe to delete"

\* util.py lines 279-286, 292, 296, 300
UtilAuditInfo(d, c) ==
    [DiskName |-> d.name, DiskSize |-> <<d.disk_size_gb, " GB">>, DiskType |-> d.sku.name,
     ResourceGroup |-> ResourceGroup(d.id),
     EstimatedMonthlyCost |-> <<"$", UtilMonthlyCost(d.disk_size_gb, d.sku.name)>>,
     CreatedTime |-> d.time_created, ManagementNote |-> UtilManagementNote(c)]

\* util.py lines 265-303: the body of the loop
UtilAuditStep(acc, d, a) ==
    IF FilteredOut(a.regions, d.location) \/ d.disk_state # "Unattached" THEN acc
    ELSE LET c == Category(d.name, ResourceGroup(d.id))
             s1 == [acc.summary EXCEPT !.total_unattached = @ + 1,
                                       ![UtilAuditCount(c)] = @ + 1]
         IN  [acc EXCEPT ![UtilAuditKey(c)] = DictAppend(@, d.location, UtilAuditInfo(d, c)),
                         !.summary =
                            IF c = "orphaned"
                            THEN [s1 EXCEPT !.potential_monthly_savings =
                                     @ + UtilMonthlyCost(d.disk_size_gb, d.sku.name)]
                            ELSE s1]

RECURSIVE UtilAuditLoop(_, _, _)
UtilAuditLoop(acc, ds, a) ==
    IF ds = <<>> THEN acc
    ELSE UtilAuditLoop(UtilAuditStep(acc, Head(ds), a), Tail(ds), a)

\* util.py lines 314-324: the recommendations, present when there are any
UtilRecommendations(summary) ==
    (IF summary.truly_orphaned_count > 0
     THEN <<<<"Delete", summary.truly_orphaned_count, "truly orphaned disks to save",
              summary.potential_monthly_savings>>,
            <<"Review the 'truly_orphaned' section for disks safe to delete">>>>
     ELSE <<>>)
    \o (IF summary.pvc_count > 0
        THEN <<<<"Review", summary.pvc_count, "Kubernetes PVCs">>>> ELSE <<>>)

\* util.py lines 222-326: get_detailed_disk_audit
UtilDiskAudit(ds, a, fail_at) ==
    LET acc == UtilAuditLoop([truly_orphaned |-> EmptyDict, kubernetes_pvc |-> EmptyDict,
                              aks_managed_other |-> EmptyDict,
                              summary |-> [total_unattached |-> 0,
                                           truly_orphaned_count |-> 0, pvc_count |-> 0,
                                           aks_managed_count |-> 0,
                                           potential_monthly_savings |-> 0]],
                             Enumerated(ds, fail_at), a)
        recs == UtilRecommendations(acc.summary)
    IN  [result |-> IF recs = <<>> THEN acc
                    ELSE [f \in DOMAIN acc \cup {"recommendations"} |->
                             IF f = "recommendations" THEN recs ELSE acc[f]],
         errors |-> IF fail_at = 0 THEN EmptyDict
                    ELSE DictPut(EmptyDict, "Error", <<"raised">>)]

\* a VM: its power state is the code of the status that instance_view
\* reports; view is FALSE when instance_view raises for it
Vm(name, location, power, view) ==
    [name |-> name, id |-> ResourceId(<<"rg", "g">>, name), location |-> location,
     power |-> power, view |-> view, vm_size |-> "Standard_B2s"]
VmKinds ==
    {<<"eastus", "PowerState/deallocated", TRUE>>, <<"westus", "PowerState/stopped", TRUE>>,
     <<"eastus", "PowerState/running", TRUE>>, <<"eastus", "PowerState/deallocated", FALSE>>}
VmOf(k, i) == Vm(<<"vm", i>>, k[1], k[2], k[3])

\* vm_operations.py lines 53-59
OpsVmInfo(v) ==
    [name |-> v.name, resource_group |-> ResourceGroup(v.id), location |-> v.location,
     vm_size |-> v.vm_size, id |-> v.id]

RECURSIVE OpsVmsLoop(_, _, _)
\* vm_operations.py lines 37-63: a VM whose instance_view raises is skipped
OpsVmsLoop(acc, vs, a) ==
    IF vs = <<>> THEN acc
    ELSE LET v == Head(vs) IN
         OpsVmsLoop(IF ~FilteredOut(a.regions, v.location) /\ v.view
                       /\ v.power = "PowerState/deallocated"
                    THEN Append(acc, OpsVmInfo(v)) ELSE acc,
                    Tail(vs), a)

\* vm_operations.py lines 11-68: get_stopped_vms
OpsStoppedVms(vs, a, fail_at) ==
    [result |-> [stopped_vms |-> OpsVmsLoop(<<>>, Enumerated(vs, fail_at), a)],
     errors |-> IF fail_at = 0 THEN EmptyDict
                ELSE DictPut(EmptyDict, "stopped_vms", "Failed to get stopped VMs")]

\* the first VM of vs, in the regions asked for, whose instance_view
\* raises: util.py has no handler around the call (lines 125-128)
FirstViewFailure(vs, a) ==
    IF \E i \in DOMAIN vs : ~FilteredOut(a.regions, vs[i].location) /\ ~vs[i].view
    THEN CHOOSE i \in DOMAIN vs :
            /\ ~FilteredOut(a.regions, vs[i].location) /\ ~vs[i].view
            /\ \A j \in 1..(i - 1) : FilteredOut(a.regions, vs[j].location) \/ vs[j].view
    ELSE 0

RECURSIVE UtilVmsLoop(_, _, _)
\* util.py lines 116-138
UtilVmsLoop(acc, vs, a) ==
    IF vs = <<>> THEN acc
    ELSE LET v == Head(vs) IN
         UtilVmsLoop(IF ~FilteredOut(a.regions, v.location)
                        /\ v.power \in {"PowerState/deallocated", "PowerState/stopped"}
                     THEN DictAppend(acc, v.location,
                                     [VMName |-> v.name, VMSize |-> v.vm_size,
                                      ResourceGroup |-> ResourceGroup(v.id)])
                     ELSE acc,
                     Tail(vs), a)

\* util.py lines 90-142: get_stopped_vms
UtilStoppedVms(vs, a, fail_at) ==
    LET seen == Enumerated(vs, fail_at)
        f == FirstViewFailure(seen, a)
    IN  [result |-> UtilVmsLoop(EmptyDict, Enumerated(seen, f), a),
         errors |-> IF fail_at = 0 /\ f = 0 THEN EmptyDict
                    ELSE DictPut(EmptyDict, "Error", <<"raised">>)]

\* a public IP address
PublicIp(name, location, associated) ==
    [name |-> name, id |-> ResourceId(<<"rg", "g">>, name), location |-> location,
     ip_configuration |-> associated, ip_address |-> <<"10.0.0.1">>, sku |-> [name |-> "Basic"]]
IpKinds == {<<"eastus", FALSE>>, <<"westus", FALSE>>, <<"eastus", TRUE>>}
IpOf(k, i) == PublicIp(<<"ip", i>>, k[1], k[2])

RECURSIVE IpsLoop(_, _, _)
\* util.py lines 349-364
IpsLoop(acc, ips, a) ==
    IF ips = <<>> THEN acc
    ELSE LET p == Head(ips) IN
         IpsLoop(IF ~FilteredOut(a.regions, p.location) /\ ~p.ip_configuration
                 THEN DictAppend(acc, p.location,
                                 [Name |-> p.name, IPAddress |-> p.ip_address,
                                  SKU |-> p.sku.name, ResourceGroup |-> ResourceGroup(p.id)])
                 ELSE acc,
                 Tail(ips), a)

\* util.py lines 328-368: get_unassociated_public_ips
UnassociatedPublicIps(ips, a, fail_at) ==
    [result |-> IpsLoop(EmptyDict, Enumerated(ips, fail_at), a),
     errors |-> IF fail_at = 0 THEN EmptyDict
                ELSE DictPut(EmptyDict, "Error", <<"raised">>)]

MaxMoney == 2
MaxBudgets == 1
\* budget.current_spend, budget.forecast_spend: the attribute is missing,
\* is None, or holds an amount
Absent == [kind |-> "absent", amount |-> 0]
NoSpend == [kind |-> "none", amount |-> 0]
Spend(v) == [kind |-> "amount", amount |-> v]
Spends == {Absent, NoSpend} \cup {Spend(v) : v \in 0..(MaxMoney + 1)}
BudgetKinds == [amount : 1..MaxMoney, current_spend : Spends, forecast_spend : Spends]
BudgetOf(k, i) ==
    [name |-> <<"budget", i>>, amount |-> k.amount, current_spend |-> k.current_spend,
     forecast_spend |-> k.forecast_spend]

\* util.py lines 398-405: 0.0 unless the attribute is there and holds an amount
SpendAmount(sp) == IF sp.kind = "amount" THEN sp.amount ELSE 0

\* BudgetStatus with the forecast tested first
BudgetStatusForecastFirst(limit, actual, forecast) ==
    IF forecast > limit THEN "Forecasted to Exceed"
    ELSE IF actual > limit THEN "Over Budget"
         ELSE "Under Budget"
\* util.py lines 407-412
BudgetStatus(limit, actual, forecast) ==
    IF actual > limit THEN "Over Budget"
    ELSE IF forecast > limit THEN "Forecasted to Exceed"
         ELSE "Under Budget"

\* util.py lines 393-419: the entry of a budget; an amount is written with
\* two decimals, a forecast of 0 as "N/A"
BudgetEntry(b) ==
    LET limit == b.amount
        actual == SpendAmount(b.current_spend)
        forecast == SpendAmount(b.forecast_spend)
    IN  [Limit |-> <<limit, ".00">>,
         ActualSpend |-> <<actual, ".00">>,
         ForecastedSpend |-> IF forecast # 0 THEN <<forecast, ".00">> ELSE <<"N/A">>,
         Status |-> BudgetStatus(limit, actual, forecast)]

RECURSIVE BudgetsLoop(_, _)
\* util.py lines 392-419
BudgetsLoop(acc, bs) ==
    IF bs = <<>> THEN acc
    ELSE BudgetsLoop(DictPut(acc, Head(bs).name, BudgetEntry(Head(bs))), Tail(bs))

\* util.py lines 370-424: get_budget_data
GetBudgetData(bs, fail_at) ==
    [result |-> BudgetsLoop(EmptyDict, Enumerated(bs, fail_at)),
     errors |-> IF fail_at = 0 THEN EmptyDict
                ELSE DictPut(EmptyDict, "Budget Error", <<"raised">>)]

Inspectors == {"disks", "audit", "vms", "ips", "budgets"}
RegionArgs == {<<>>, <<"eastus">>}

\* the arguments of the inspectors and what the subscription holds; fail
\* gives, per inspector, the item in whose place its enumeration raises
\* (0: it does not)
Subscription(lib, ds, vs, ips, bs, regions, pvc, aks, fail) ==
    [lib |-> lib, disks |-> ds, vms |-> vs, ips |-> ips, budgets |-> bs,
     regions |-> regions, include_pvc |-> pvc, include_aks_managed |-> aks,
     fail |-> fail]
NoFailure == [i \in Inspectors |-> 0]

\* a call of get_unattached_disks
GetUnattachedDisks ==
    /\ "disks" \notin DOMAIN inspected
    /\ inspected' = DictPut(inspected, "disks",
          IF subscription.lib = "ops"
          THEN OpsUnattachedDisks(subscription.disks, subscription, subscription.fail.disks)
          ELSE UtilUnattachedDisks(subscription.disks, subscription, subscription.fail.disks))
    /\ UNCHANGED <<fineVars, singletonVars, limiterVars, resolverVars, costVars, response, breakdown, tags,
                   dimensions, query_kwargs, subscription>>

\* a call of get_detailed_disk_audit
GetDetailedDiskAudit ==
    /\ "audit" \notin DOMAIN inspected
    /\ inspected' = DictPut(inspected, "audit",
          IF subscription.lib = "ops"
          THEN OpsDiskAudit(subscription.disks, subscription, subscription.fail.audit)
          ELSE UtilDiskAudit(subscription.disks, subscription, subscription.fail.audit))
    /\ UNCHANGED <<fineVars, singletonVars, limiterVars, resolverVars, costVars, response, breakdown, tags,
                   dimensions, query_kwargs, subscription>>

\* a call of get_stopped_vms
GetStoppedVms ==
    /\ "vms" \notin DOMAIN inspected
    /\ inspected' = DictPut(inspected, "vms",
          IF subscription.lib = "ops"
          THEN OpsStoppedVms(subscription.vms, subscription, subscription.fail.vms)
          ELSE UtilStoppedVms(subscription.vms, subscription, subscription.fail.vms))
    /\ UNCHANGED <<fineVars, singletonVars, limiterVars, resolverVars, costVars, response, breakdown, tags,
                   dimensions, query_kwargs, subscription>>

\* a call of get_unassociated_public_ips
GetUnassociatedPublicIps ==
    /\ "ips" \notin DOMAIN inspected
    /\ inspected' = DictPut(inspected, "ips",
          UnassociatedPublicIps(subscription.ips, subscription, subscription.fail.ips))
    /\ UNCHANGED <<fineVars, singletonVars, limiterVars, resolverVars, costVars, response, breakdown, tags,
                   dimensions, query_kwargs, subscription>>

\* a call of get_budget_data
GetBudgets ==
    /\ "budgets" \notin DOMAIN inspected
    /\ inspected' = DictPut(inspected, "budgets",
          GetBudgetData(subscription.budgets, subscription.fail.budgets))
    /\ UNCHANGED <<fineVars, singletonVars, limiterVars, resolverVars, costVars, response, breakdown, tags,
                   dimensions, query_kwargs, subscription>>

OthersIdle == LimiterIdle /\ ResolverIdle /\ CostIdle /\ BreakdownIdle /\ FilterIdle

\* the disk inspectors over any disks, with any arguments
DiskInit ==
    /\ OthersIdle
    /\ \E n \in 0..MaxDisks : \E f \in [1..n -> DiskKinds] : \E k \in 0..(n + 1) :
       \E lib \in {"ops", "util"}, regions \in RegionArgs, pvc, aks \in BOOLEAN :
          subscription =
             Subscription(lib, [i \in 1..n |-> DiskOf(f[i], i)], <<>>, <<>>, <<>>,
                          regions, pvc, aks,
                          [NoFailure EXCEPT !.disks = k, !.audit = k])
    /\ inspected = EmptyDict

DiskNext == GetUnattachedDisks \/ GetDetailedDiskAudit

DiskSpec == DiskInit /\ [][DiskNext]_vars

\* get_budget_data over any budgets
BudgetInit ==
    /\ OthersIdle
    /\ \E n \in 0..MaxBudgets : \E f \in [1..n -> BudgetKinds] : \E k \in 0..(n + 1) :
          subscription =
             Subscription("util", <<>>, <<>>, <<>>, [i \in 1..n |-> BudgetOf(f[i], i)],
                          <<>>, FALSE, FALSE, [NoFailure EXCEPT !.budgets = k])
    /\ inspected = EmptyDict

BudgetNext == GetBudgets

BudgetSpec == BudgetInit /\ [][BudgetNext]_vars

\* the five inspectors over one subscription of two resources of each type,
\* any of the enumerations raising anywhere
InspectDisks ==
    {<<DiskOf([prefix |-> "pvc-", rg |-> "rg", at |-> <<"eastus", None, "Unattached">>], 1),
       DiskOf([prefix |-> "data", rg |-> "rg", at |-> <<"eastus", None, "Unattached">>], 2)>>,
     <<DiskOf([prefix |-> "data", rg |-> "rg", at |-> <<"eastus", None, "Unattached">>], 1),
       DiskOf([prefix |-> "data", rg |-> "MC_", at |-> <<"westus", None, "Unattached">>], 2)>>}
InspectVms ==
    {<<VmOf(<<"eastus", "PowerState/deallocated", TRUE>>, 1),
       VmOf(<<"eastus", "PowerState/deallocated", TRUE>>, 2)>>,
     <<VmOf(<<"eastus", "PowerState/deallocated", TRUE>>, 1),
       VmOf(<<"eastus", "PowerState/deallocated", FALSE>>, 2)>>}
InspectIps == <<IpOf(<<"eastus", FALSE>>, 1), IpOf(<<"westus", FALSE>>, 2)>>
InspectBudgets ==
    <<BudgetOf([amount |-> 1, current_spend |-> Spend(2), forecast_spend |-> Absent], 1),
      BudgetOf([amount |-> 1, current_spend |-> NoSpend, forecast_spend |-> Spend(1)], 2)>>

InspectInit ==
    /\ OthersIdle
    /\ \E lib \in {"ops", "util"}, ds \in InspectDisks, vs \in InspectVms :
       \E fail \in [Inspectors -> 0..(Len(InspectIps) + 1)] :
          subscription = Subscription(lib, ds, vs, InspectIps, InspectBudgets,
                                      <<>>, FALSE, FALSE, fail)
    /\ inspected = EmptyDict

InspectNext ==
    \/ GetUnattachedDisks
    \/ GetDetailedDiskAudit
    \/ GetStoppedVms
    \/ GetUnassociatedPublicIps
    \/ GetBudgets

InspectSpec == InspectInit /\ [][InspectNext]_vars

\* the disk audit of disk_operations.py over disks of any SKU and size: the
\* four SKUs of the table of estimate_disk_cost and one that is not in it
SkuNames == {"Standard_LRS", "StandardSSD_LRS", "Premium_LRS", "UltraSSD_LRS", "PremiumV2_LRS"}
DiskSizes == {1, 100, 600}
SizedDisk(d, size_gb, sku_name) ==
    [d EXCEPT !.disk_size_gb = size_gb, !.sku = [name |-> sku_name]]
AuditKinds == [prefix : {"pvc-", "data"}, size_gb : DiskSizes, sku : SkuNames]
AuditCostInit ==
    /\ OthersIdle
    /\ \E n \in 1..MaxDisks : \E f \in [1..n -> AuditKinds] :
          subscription =
             Subscription("ops",
                          [i \in 1..n |->
                              SizedDisk(DiskOf([prefix |-> f[i].prefix, rg |-> "rg",
                                                at |-> <<"eastus", None, "Unattached">>], i),
                                        f[i].size_gb, f[i].sku)],
                          <<>>, <<>>, <<>>, <<>>, FALSE, FALSE, NoFailure)
    /\ inspected = EmptyDict

AuditCostNext == GetDetailedDiskAudit

AuditCostSpec == AuditCostInit /\ [][AuditCostNext]_vars

(***************************************************************************)
(* The module globals: get_rate_limiter / reset_rate_limiter               *)
(* (rate_limiter.py) and get_config / set_config (config.py)               *)
(***************************************************************************)
\* the number of reset_rate_limiter calls of a run
MaxResets == 1
\* the config objects: "env" is what AzureFinOpsConfig.from_environment()
\* returns, an AzureFinOpsConfig with the fields of config.py lines 15-37;
\* "custom" is an object that a caller gave to set_config and that carries
\* rate_limit_enabled, rate_limit_requests_per_second, rate_limit_burst_size,
\* rate_limit_window_seconds and rate_limit_per_subscription as well
HasRateLimitSettings(c) == c = "custom"

Outside(t) == callers[t].pc \in {"idle", "ret", "raised"}
Move(t, r) == callers' = [callers EXCEPT ![t] = r]

\* config.py lines 199-213: set_config(config) with a valid custom object
SetConfig ==
    /\ global_config # "custom"
    /\ global_config' = "custom"
    /\ UNCHANGED <<limiterVars, resolverVars, costVars, toolVars, fineVars,
                   rate_limiter, instances, epoch, callers>>

\* get_rate_limiter line 207: if _rate_limiter is None
CallGetRateLimiter(t) ==
    /\ Outside(t)
    /\ Move(t, [NoCall EXCEPT !.op = "get", !.epoch = epoch,
                              !.pc = IF rate_limiter = NoInstance
                                     THEN "get_config" ELSE "return"])
    /\ UNCHANGED <<limiterVars, resolverVars, costVars, toolVars, fineVars,
                   global_config, rate_limiter, instances, epoch>>

\* line 210, config.py lines 182-197: get_config() builds the config from
\* the environment when there is none and returns the global one
GetConfig(t) ==
    /\ callers[t].pc = "get_config"
    /\ LET c == IF global_config = "None" THEN "env" ELSE global_config IN
       /\ global_config' = c
       /\ Move(t, [callers[t] EXCEPT !.pc = "read_settings", !.config = c])
    /\ UNCHANGED <<limiterVars, resolverVars, costVars, toolVars, fineVars,
                   rate_limiter, instances, epoch>>

\* lines 212-218: RateLimitConfig(enabled=config.rate_limit_enabled, ...): an
\* AttributeError when the config object has no such attribute
ReadSettings(t) ==
    /\ callers[t].pc = "read_settings"
    /\ Move(t, [callers[t] EXCEPT !.pc = IF HasRateLimitSettings(callers[t].config)
                                         THEN "assign" ELSE "raised"])
    /\ UNCHANGED <<limiterVars, resolverVars, costVars, toolVars, fineVars,
                   global_config, rate_limiter, instances, epoch>>

\* line 220: _rate_limiter = RateLimiter(rate_config)
AssignRateLimiter(t) ==
    /\ callers[t].pc = "assign"
    /\ LET new == [epoch |-> epoch + 1, n |-> Cardinality(instances) + 1] IN
       /\ rate_limiter' = new
       /\ instances' = instances \cup {new}
    /\ Move(t, [callers[t] EXCEPT !.pc = "return"])
    /\ UNCHANGED <<limiterVars, resolverVars, costVars, toolVars, fineVars,
                   global_config, epoch>>

\* line 222: return _rate_limiter
ReturnRateLimiter(t) ==
    /\ callers[t].pc = "return"
    /\ Move(t, [callers[t] EXCEPT !.pc = "ret", !.got = rate_limiter,
                                  !.spanned = callers[t].epoch # epoch])
    /\ UNCHANGED <<limiterVars, resolverVars, costVars, toolVars, fineVars,
                   global_config, rate_limiter, instances, epoch>>

\* lines 225-228: reset_rate_limiter()
ResetRateLimiter(t) ==
    /\ Outside(t)
    /\ epoch < MaxResets
    /\ rate_limiter' = NoInstance
    /\ instances' = {}
    /\ epoch' = epoch + 1
    /\ Move(t, [NoCall EXCEPT !.op = "reset", !.pc = "ret", !.epoch = epoch + 1])
    /\ UNCHANGED <<limiterVars, resolverVars, costVars, toolVars, fineVars, global_config>>

SingletonInit ==
    /\ LimiterIdle
    /\ ResolverIdle
    /\ CostIdle
    /\ ToolsIdle

SingletonNext ==
    \/ SetConfig
    \/ \E t \in Threads : CallGetRateLimiter(t)
    \/ \E t \in Threads : GetConfig(t)
    \/ \E t \in Threads : ReadSettings(t)
    \/ \E t \in Threads : AssignRateLimiter(t)
    \/ \E t \in Threads : ReturnRateLimiter(t)
    \/ \E t \in Threads : ResetRateLimiter(t)

SingletonSpec == SingletonInit /\ [][SingletonNext]_vars

(***************************************************************************)
(* Properties of the rate limiter                                          *)
(***************************************************************************)
Live(i) == heap[i] # NoBucket

\* C1: every token bucket holds between 0 and capacity tokens in every
\* reachable state, whatever consumes and refills (get_stats' included) ran.
C1_TokensWithinCapacity ==
    \A i \in Slots :
        Live(i) => 0 <= heap[i].tokens /\ heap[i].tokens <= heap[i].capacity

\* a bucket that was refilled after its creation and is full, while a
\* get_stats call has returned
C1_Witness ==
    /\ \E i \in Slots : Live(i) /\ heap[i].last_update > 0
                          /\ heap[i].tokens = heap[i].capacity
    /\ \E t \in Threads : th[t].op = "stats" /\ th[t].pc = "ret"
    /\ \E i \in Slots : Live(i) /\ heap[i].tokens = 0

\* C2: consume(k) refills to min(capacity, tokens + elapsed * rate) and sets
\* last_update to now; then it grants iff k <= tokens, taking exactly k
\* tokens, and a refused request takes nothing.
C2_ConsumeRefillsThenTakes ==
    [][\A t \in Threads :
        (th[t].pc = "acq_consume" /\ th'[t].pc # "acq_consume") =>
            LET b == th[t].bref
                old == heap[b]
                refilled == Min(old.capacity,
                                old.tokens + (now - old.last_update) * old.rate)
                granted == th'[t].pc \in {"rec_new", "rec_append"}
                k == IF granted THEN th[t].n ELSE 0
            IN /\ granted <=> th[t].n <= refilled
               /\ ~granted => ~th'[t].ok /\ th'[t].pc \in {"ret", "sleep"}
               /\ th'[t].taken = th[t].taken + k
               /\ heap'[b] # NoBucket =>
                     /\ heap'[b].tokens = refilled - k
                     /\ heap'[b].last_update = now
               /\ heap'[b] = NoBucket => b \notin Range(buckets)
      ]_vars

\* an acquire was refused at a later clock value than the bucket's creation:
\* the bucket was refilled, nothing was taken
C2_Witness ==
    \E t \in Threads :
        /\ th[t].op = "acquire" /\ th[t].pc = "ret" /\ ~th[t].ok
        /\ th[t].taken = 0 /\ config.enabled
        /\ \E i \in Slots : Live(i) /\ heap[i].last_update = now /\ now > 0
                              /\ heap[i].tokens > 0

C4_DisabledPassthrough ==
    [][~config.enabled =>
        \A t \in Threads :
            (th'[t] # th[t] /\ th'[t].op \in {"acquire", "wait"}) =>
                /\ th'[t].pc = "ret"
                /\ th'[t].op = "acquire" => th'[t].ok
                /\ UNCHANGED <<fineVars, singletonVars, heap, buckets, request_history, lock>>
                /\ buckets = EmptyDict /\ request_history = EmptyDict
      ]_vars

\* a disabled limiter has let an acquire and a wait_if_needed through
C4_Witness ==
    /\ ~config.enabled
    /\ th[1].op = "wait" /\ th[1].pc = "ret"
    /\ th[2].op = "acquire" /\ th[2].pc = "ret" /\ th[2].ok

\* C5: an acquire uses the bucket of the key given to it when per-account
\* limiting is on and a key is given, else the bucket "global"; it creates
\* and consumes from that bucket only and leaves every other bucket as it is.
C5_KeySelection ==
    [][\A t \in Threads :
        LET expected == IF config.per_subscription /\ th[t].key # NoKey
                        THEN th[t].key ELSE "global"
        IN /\ (th[t].pc = "acq_map" /\ th'[t].pc = "acq_consume") =>
                /\ expected \in DOMAIN buckets'
                /\ th'[t].bref = buckets'[expected]
                /\ heap'[th'[t].bref].key = expected
                /\ DOMAIN buckets' = DOMAIN buckets \cup {expected}
                /\ \A k \in DOMAIN buckets : buckets'[k] = buckets[k]
                /\ \A i \in Slots : Live(i) => heap'[i] = heap[i]
           /\ (th[t].pc = "acq_consume" /\ th'[t].pc # "acq_consume") =>
                /\ heap[th[t].bref].key = expected
                /\ \A i \in Slots \ {th[t].bref} : heap'[i] = heap[i]
                /\ UNCHANGED buckets
      ]_vars

\* per-account limiting: the bucket of account "a" is exhausted while the
\* bucket "global" still grants
C5_Witness ==
    /\ config.per_subscription
    /\ "a" \in DOMAIN buckets /\ "global" \in DOMAIN buckets
    /\ heap[buckets["a"]].tokens = 0
    /\ heap[buckets["global"]].tokens = heap[buckets["global"]].capacity
    /\ \E t \in Threads : th[t].op = "acquire" /\ th[t].pc = "ret" /\ ~th[t].ok

(***************************************************************************)
(* Properties of the resolver                                              *)
(***************************************************************************)
\* the account a token resolves to: its id and the name it is known under
ResolvedSub(tok) ==
    IF impl = "azure"
    THEN SubscriptionLookup(directory, tok)
    ELSE IF \E i \in DOMAIN directory :
                directory[i].name = tok /\ directory[i].sts = "ok"
         THEN [id |-> Last(directory, {i \in DOMAIN directory : directory[i].name = tok}).id, name |-> tok]
         ELSE NoSub
Hits(tok) == ResolvedSub(tok) # NoSub

RECURSIVE HitsOf(_, _)
\* the tokens of toks that resolve to account id, in input order
HitsOf(toks, id) ==
    IF toks = <<>> THEN <<>>
    ELSE IF Hits(Head(toks)) /\ ResolvedSub(Head(toks)).id = id
         THEN <<Head(toks)>> \o HitsOf(Tail(toks), id)
         ELSE HitsOf(Tail(toks), id)

GroupIds == {groups[i].id : i \in DOMAIN groups}
Resolved == rpc = "done" /\ ~all_profiles /\ (impl = "azure" => directory # <<>>)

\* one group per account id that some token resolves to, and no other group
OneGroupPerAccount ==
    /\ \A i, j \in DOMAIN groups : groups[i].id = groups[j].id => i = j
    /\ GroupIds = {ResolvedSub(profiles[k]).id : k \in {k \in DOMAIN profiles : Hits(profiles[k])}}

\* C6 as stated: the tokens resolving to one account id form one group keyed
\* by that id whose alias list is those tokens themselves, in input order.
C6_AliasesAreTokens ==
    Resolved =>
        /\ OneGroupPerAccount
        /\ \A i \in DOMAIN groups : groups[i].names = HitsOf(profiles, groups[i].id)

\* C6 (amended): the tokens resolving to one account id form one group keyed
\* by that id; its alias list has one entry per such token, in input order,
\* the entry being the name of the account the token matched (the token
\* itself when it matched by name, as always in helpers/profiles.py); the
\* primary alias is the entry of the first token that hit.
C6_AliasesAreNames ==
    Resolved =>
        /\ OneGroupPerAccount
        /\ \A i \in DOMAIN groups :
              LET hits == HitsOf(profiles, groups[i].id) IN
              groups[i].names = [k \in DOMAIN hits |-> ResolvedSub(hits[k]).name]

\* two tokens for one account gave one group of two aliases
C6_Witness ==
    /\ Resolved
    /\ \E i \in DOMAIN groups : Len(groups[i].names) = 2
                                 /\ groups[i].names[1] # groups[i].names[2]
    /\ Len(groups) = 1

RECURSIVE Without(_, _)
\* toks without the tokens in set bad
Without(toks, bad) ==
    IF toks = <<>> THEN <<>>
    ELSE IF Head(toks) \in bad THEN Without(Tail(toks), bad)
         ELSE <<Head(toks)>> \o Without(Tail(toks), bad)

\* the tokens that match no account: unknown to the directory, or (aws) a
\* profile whose identity call raises
Unknown(tok) == \A i \in DOMAIN directory : directory[i].name # tok /\ (impl = "azure" => directory[i].id # tok)
Raises(tok) == impl = "aws" /\ \E i \in DOMAIN directory : directory[i].name = tok /\ directory[i].sts = "raise"
BadTokens == {profiles[k] : k \in {k \in DOMAIN profiles : Unknown(profiles[k]) \/ Raises(profiles[k])}}
ErrorKey(tok) ==
    IF impl = "aws" /\ Unknown(tok) THEN <<"Error processing for profile", tok>>
    ELSE <<"Error processing profile", tok>>
GroupsFor(toks) ==
    IF impl = "azure" THEN ProfilesToUseAzure(directory, toks, FALSE).groups
    ELSE ProfilesToUseAws(directory, toks).groups

C8_SelectAll ==
    (rpc = "done" /\ impl = "azure") =>
        /\ (all_profiles /\ directory # <<>>) =>
              /\ profile_errors = EmptyDict
              /\ \A d \in DOMAIN directory :
                    Cardinality({i \in DOMAIN groups : groups[i].id = directory[d].id}) = 1
        /\ directory = <<>> =>
              /\ groups = <<>>
              /\ DOMAIN profile_errors = {<<"Error">>}

(***************************************************************************)
(* Properties of get_cost                                                  *)
(***************************************************************************)
IsRaise(o) == o \in {"raise_session", "raise_query1", "raise_query2"}
RaisedAt == {i \in DOMAIN outcomes : IsRaise(outcomes[i])}
\* the window every account of the call is queried for
CallWindow == ResolveWindow(time_range_days, start_date_iso, end_date_iso, Today)
\* the entry an account's turn leaves when nothing else touches it
EntryOf(i) ==
    IF outcomes[i] = "ok"
    THEN SuccessEntry(groups[i].names[1], groups[i].id, CallWindow)
    ELSE ErrorEntry(groups[i].names[1])

\* C9: when the work of exactly one of the N resolved accounts raises,
\* get_cost returns a report with exactly N entries, the failing account's
\* with status error and every other account's the success entry it has
\* when nothing fails, and each entry was written once.
C9_FailureIsolation ==
    (cpc = "done" /\ Cardinality(RaisedAt) = 1
        /\ \A i \in DOMAIN outcomes : outcomes[i] # "window_error") =>
        /\ result.kind = "report"
        /\ Len(outcomes) = Len(groups)
        /\ Cardinality(DOMAIN result.accounts_cost_data) = Len(groups)
        /\ \A i \in DOMAIN groups :
              /\ groups[i].names[1] \in DOMAIN result.accounts_cost_data
              /\ result.accounts_cost_data[groups[i].names[1]] = EntryOf(i)
              /\ result.accounts_cost_data[groups[i].names[1]].status =
                    (IF i \in RaisedAt THEN "error" ELSE "success")
              /\ writes[groups[i].names[1]] = 1

\* three accounts, the second one's query raises, the report is returned
C9_Witness ==
    /\ cpc = "done"
    /\ Len(groups) = 3
    /\ outcomes = <<"ok", "raise_query2", "ok">>
    /\ result.kind = "report"
    /\ Cardinality(DOMAIN result.accounts_cost_data) = 3

\* C10: get_cost returns the top-level error only when no account resolved;
\* with at least one account resolved it returns a report with
\* accounts_cost_data and errors_for_profiles, holding an entry for every
\* account of the call and the resolver's errors.
C10_ReportUnlessNothingResolved ==
    cpc = "done" =>
        /\ result.kind = "error" => groups = <<>>
        /\ groups # <<>> =>
              /\ result.kind = "report"
              /\ result.errors_for_profiles = profile_errors
              /\ \A i \in DOMAIN groups :
                    groups[i].names[1] \in DOMAIN result.accounts_cost_data

\* the window arguments, read off the arguments themselves
BothDates == start_date_iso.kind # "none" /\ end_date_iso.kind # "none"
ValidDates == start_date_iso.kind = "date" /\ end_date_iso.kind = "date"
Swapped == ValidDates /\ start_date_iso.day > end_date_iso.day
\* the accounts whose turn came as far as the window
PastSession == {i \in DOMAIN outcomes : outcomes[i] # "raise_session"}

\* C11: with start after end no get_cost_and_usage call is ever issued, and
\* the account whose turn reaches the window gets the invalid-window error
\* naming it; in any call, a query is issued only for a valid window.
C11_ValidationBeforeQuery ==
    /\ Swapped =>
          /\ queries = <<>>
          /\ \A i \in PastSession :
                /\ outcomes[i] = "window_error"
                /\ result = [kind |-> "window_error",
                             profile_name |-> groups[i].names[1],
                             message |-> "Start date cannot be after end date."]
    /\ queries # <<>> =>
          /\ ~(BothDates /\ ~ValidDates)
          /\ ~(~BothDates /\ time_range_days.given /\ time_range_days.v <= 0)

\* start after end, the account's turn got its error, nothing was queried
C11_Witness ==
    /\ Swapped
    /\ cpc = "done"
    /\ result.kind = "window_error"
    /\ outcomes = <<"raise_session", "window_error">>
    /\ queries = <<>>

\* the success entries of the accounts
Successes == {cost_data[k] : k \in {k \in DOMAIN cost_data : cost_data[k].status = "success"}}
\* the window [a, b] (b inclusive) is the one the arguments ask for: the
\* dates when both are given, else the last N days when N is given, else
\* the first day of the current month through today
WindowByPriority(a, b) ==
    IF BothDates
    THEN ValidDates /\ a = start_date_iso.day /\ b = end_date_iso.day
    ELSE IF time_range_days.given
         THEN /\ time_range_days.v > 0
              /\ b = Today
              /\ a = Today - (time_range_days.v - 1)
              /\ b - a + 1 = time_range_days.v
         ELSE /\ b = Today
              /\ a <= Today /\ Today - a < DaysInMonth
              /\ (a - 1) % DaysInMonth = 0

\* C12: the window of every query and of every reported entry is chosen by
\* priority: [start, end] when both dates are given, whatever the day count;
\* else the last N days including today when a day count N is given; else
\* the first day of the current month through today.
C12_WindowPriority ==
    /\ \A i \in DOMAIN queries : WindowByPriority(queries[i].start, queries[i].end - 1)
    /\ \A e \in Successes : WindowByPriority(e.period_start_date, e.period_end_date)

\* both dates and a day count of 1 given: the entry has the four days of
\* the dates
C12_Witness ==
    /\ cpc = "done" /\ result.kind = "report"
    /\ ValidDates /\ time_range_days = Days(1)
    /\ \E e \in Successes :
          e.period_start_date = Today - 3 /\ e.period_end_date = Today
    /\ Len(queries) >= 2

\* C13: every query is monthly exactly when neither both dates nor a day
\* count were given (the month-to-date window) and daily otherwise, and the
\* total-cost query and the per-service query of an account agree.
C13_Granularity ==
    /\ \A i \in DOMAIN queries :
          queries[i].granularity =
             (IF ~BothDates /\ ~time_range_days.given THEN "MONTHLY" ELSE "DAILY")
    /\ \A i, j \in DOMAIN queries :
          queries[i].profile = queries[j].profile =>
             queries[i].granularity = queries[j].granularity

\* a day count alone: the two queries of an account are daily
C13_Witness ==
    /\ ~BothDates /\ time_range_days = Days(3)
    /\ Len(queries) = 2
    /\ ~queries[1].grouped /\ queries[2].grouped
    /\ queries[1].granularity = "DAILY" /\ queries[2].granularity = "DAILY"

(***************************************************************************)
(* Properties of the cost breakdown                                        *)
(***************************************************************************)
\* the groups of the response, sub-period after sub-period
AllGroups == response[1].Groups \o response[2].Groups
RECURSIVE SumFor(_, _)
\* the amounts of key k in gs, added up
SumFor(gs, k) ==
    IF gs = <<>> THEN 0
    ELSE (IF Head(gs).Key = k THEN Head(gs).Amount ELSE 0) + SumFor(Tail(gs), k)
Total(k) == SumFor(AllGroups, k)
Seen == {AllGroups[i].Key : i \in DOMAIN AllGroups}
FirstSeen(k) == CHOOSE i \in DOMAIN AllGroups :
                    AllGroups[i].Key = k /\ \A j \in 1..(i - 1) : AllGroups[j].Key # k
Reported == {breakdown.entries[i].key : i \in DOMAIN breakdown.entries}
OncePerKey ==
    \A i, j \in DOMAIN breakdown.entries :
        breakdown.entries[i].key = breakdown.entries[j].key => i = j

\* C14: a dimension is in the reported breakdown if and only if its amount,
\* accumulated over all sub-periods, is at least 0.001.
C14_KeptAtLeastThreshold ==
    breakdown.done =>
        /\ OncePerKey
        /\ Reported = {k \in Seen : Total(k) >= NoiseThreshold}

\* what line 128 does: a dimension is in the reported breakdown if and only
\* if its accumulated amount is greater than 0.001; one of exactly 0.001 is
\* dropped.
KeptAboveThreshold ==
    breakdown.done =>
        /\ OncePerKey
        /\ Reported = {k \in Seen : Total(k) > NoiseThreshold}

\* C15: the breakdown lists the dimensions by accumulated amount,
\* descending, and dimensions of equal accumulated amount in the order in
\* which the response first has them.
C15_DescendingStable ==
    breakdown.done =>
        \A i, j \in DOMAIN breakdown.entries :
            i < j =>
                LET a == breakdown.entries[i].key
                    b == breakdown.entries[j].key
                IN  \/ Total(a) > Total(b)
                    \/ Total(a) = Total(b) /\ FirstSeen(a) < FirstSeen(b)

\* three dimensions reported, the two of equal amount in the order of the
\* response, behind the larger one that the response has last
C15_Witness ==
    /\ breakdown.done
    /\ Len(breakdown.entries) = 3
    /\ Total(breakdown.entries[1].key) > Total(breakdown.entries[2].key)
    /\ Total(breakdown.entries[2].key) = Total(breakdown.entries[3].key)
    /\ FirstSeen(breakdown.entries[1].key) > FirstSeen(breakdown.entries[3].key)

(***************************************************************************)
(* Properties of the filter construction                                   *)
(***************************************************************************)
\* the constraints of the call: the strings of the form key=value, the tags
\* before the dimensions, each list in input order
GivenTags == SelectSeq(tags, HasEq)
GivenDimensions == SelectSeq(dimensions, HasEq)
GivenCount == Len(GivenTags) + Len(GivenDimensions)
\* the translation table of the dimension keys
Translated(key) ==
    IF key = <<"REGION">> THEN <<"ResourceLocation">>
    ELSE IF key = <<"SERVICE">> THEN <<"ServiceName">>
    ELSE IF key = <<"INSTANCE_TYPE">> THEN <<"MeterSubcategory">>
    ELSE IF key = <<"RESOURCE_ID">> THEN <<"ResourceId">>
    ELSE key
\* the k-th constraint, as the implementation at hand writes it
GivenConstraint(k) ==
    IF k <= Len(GivenTags)
    THEN IF impl = "azure"
         THEN [type |-> "tags", name |-> SplitKey(GivenTags[k]), operator |-> "In",
               values |-> <<SplitValue(GivenTags[k])>>]
         ELSE [Tags |-> [Key |-> SplitKey(GivenTags[k]),
                         Values |-> <<SplitValue(GivenTags[k])>>]]
    ELSE LET d == GivenDimensions[k - Len(GivenTags)] IN
         [type |-> "dimension", name |-> Translated(SplitKey(d)), operator |-> "In",
          values |-> <<SplitValue(d)>>]
FilterKey == IF impl = "azure" THEN "filter" ELSE "Filter"
AndKey == IF impl = "azure" THEN "and" ELSE "And"

\* C16: no filter is sent without a constraint; a single constraint is the
\* filter itself, without AND wrapper; two or more give the AND of all of
\* them in input order; a dimension key goes through the translation table,
\* any other key unchanged.
C16_FilterConstruction ==
    query_kwargs.done =>
        LET kw == query_kwargs.kwargs IN
        /\ GivenCount = 0 => kw = EmptyDict
        /\ GivenCount = 1 => kw = DictPut(EmptyDict, FilterKey, GivenConstraint(1))
        /\ GivenCount > 1 =>
              /\ DOMAIN kw = {FilterKey}
              /\ DOMAIN kw[FilterKey] = {AndKey}
              /\ kw[FilterKey][AndKey] = [k \in 1..GivenCount |-> GivenConstraint(k)]

\* a tag and two dimensions, one of them in the table: the AND of the three
C16_Witness ==
    /\ query_kwargs.done
    /\ impl = "azure"
    /\ tags = <<<<"env", "=", "prod">>>>
    /\ dimensions = <<<<"REGION", "=", "eastus">>, <<"a", "=", "b", "=", "c">>>>
    /\ Len(query_kwargs.kwargs["filter"]["and"]) = 3
    /\ query_kwargs.kwargs["filter"]["and"][2].name = <<"ResourceLocation">>
    /\ query_kwargs.kwargs["filter"]["and"][3].name = <<"a">>

(***************************************************************************)
(* Properties of the inspectors                                            *)
(***************************************************************************)
\* the items for which the body of inspector x's loop ran
Reached(x, items) ==
    IF subscription.fail[x] = 0 THEN DOMAIN items
    ELSE {i \in DOMAIN items : i < subscription.fail[x]}

\* C17: the status of a budget is Over Budget iff actual > limit; otherwise
\* Forecasted to Exceed iff forecast > limit; otherwise Under Budget; the
\* actual and forecast spend being 0 when the budget does not carry them.
C17_BudgetStatus ==
    "budgets" \in DOMAIN inspected =>
        \A i \in Reached("budgets", subscription.budgets) :
            LET b == subscription.budgets[i]
                limit == b.amount
                actual == IF b.current_spend.kind = "amount" THEN b.current_spend.amount ELSE 0
                forecast == IF b.forecast_spend.kind = "amount" THEN b.forecast_spend.amount ELSE 0
                status == inspected["budgets"].result[b.name].Status
            IN  /\ status = "Over Budget" <=> actual > limit
                /\ status = "Forecasted to Exceed" <=> (actual <= limit /\ forecast > limit)
                /\ status = "Under Budget" <=> (actual <= limit /\ forecast <= limit)

\* actual and forecast both above the limit: Over Budget
C17_Witness ==
    /\ "budgets" \in DOMAIN inspected
    /\ Len(subscription.budgets) = 1
    /\ subscription.budgets[1].current_spend = Spend(subscription.budgets[1].amount + 1)
    /\ subscription.budgets[1].forecast_spend = Spend(subscription.budgets[1].amount + 1)
    /\ <<"budget", 1>> \in DOMAIN inspected["budgets"].result
    /\ inspected["budgets"].result[<<"budget", 1>>].Status = "Over Budget"

\* the disks an inspector of the lib at hand takes for unattached, among
\* those its loop reached in the regions asked for
Unattached(d) ==
    IF subscription.lib = "ops" THEN d.managed_by = None ELSE d.disk_state = "Unattached"
InScope(x) ==
    {i \in Reached(x, subscription.disks) :
        /\ Unattached(subscription.disks[i])
        /\ (subscription.regions = <<>>
            \/ \E r \in DOMAIN subscription.regions :
                  subscription.regions[r] = subscription.disks[i].location)}
\* the category of a disk, by its name and the resource group in its id
IsPvc(d) == d.name[1] = "pvc-"
IsAksManaged(d) == ~IsPvc(d) /\ d.id[5][1] = "MC_"
IsOrphaned(d) == ~IsPvc(d) /\ d.id[5][1] # "MC_"
\* how often disk d is in a list of disk_operations.py, in a dict of util.py
InList(l, d) == Len(SelectSeq(l, LAMBDA e : e.id = d.id))
RECURSIVE InDictOver(_, _, _)
InDictOver(dict, ks, d) ==
    IF ks = {} THEN 0
    ELSE LET k == CHOOSE k \in ks : TRUE IN
         Len(SelectSeq(dict[k], LAMBDA e : e.DiskName = d.name
                                           /\ e.ResourceGroup = d.id[5]))
         + InDictOver(dict, ks \ {k}, d)
InDict(dict, d) == InDictOver(dict, DOMAIN dict, d)
Once(b) == IF b THEN 1 ELSE 0

\* C18: every unattached disk that the enumeration reached is in exactly
\* one category: Kubernetes PVC when its name starts with 'pvc-' (also when
\* its resource group starts with 'MC_'), else AKS-managed when its resource
\* group starts with 'MC_', else orphaned.
C18_OneCategory ==
    /\ ("disks" \in DOMAIN inspected /\ subscription.lib = "ops") =>
          \A i \in InScope("disks") :
             LET d == subscription.disks[i]
                 c == inspected["disks"].result.categories
             IN  /\ InList(c.pvc, d) = Once(IsPvc(d))
                 /\ InList(c.aks_managed, d) = Once(IsAksManaged(d))
                 /\ InList(c.orphaned, d) = Once(IsOrphaned(d))
    /\ ("audit" \in DOMAIN inspected /\ subscription.lib = "ops") =>
          \A i \in InScope("audit") :
             LET d == subscription.disks[i]
                 r == inspected["audit"].result
             IN  /\ InList(r.pvc_disks, d) = Once(IsPvc(d))
                 /\ InList(r.aks_managed_disks, d) = Once(IsAksManaged(d))
                 /\ InList(r.orphaned_disks, d) = Once(IsOrphaned(d))
    /\ ("audit" \in DOMAIN inspected /\ subscription.lib = "util") =>
          \A i \in InScope("audit") :
             LET d == subscription.disks[i]
                 r == inspected["audit"].result
             IN  /\ InDict(r.kubernetes_pvc, d) = Once(IsPvc(d))
                 /\ InDict(r.aks_managed_other, d) = Once(IsAksManaged(d))
                 /\ InDict(r.truly_orphaned, d) = Once(IsOrphaned(d))

\* a disk with both prefixes is counted as PVC only, by get_unattached_disks
\* and by the audit of util.py
C18_Witness ==
    /\ DOMAIN inspected = {"disks", "audit"}
    /\ subscription.lib = "util"
    /\ Len(subscription.disks) = 2
    /\ InScope("audit") = {1, 2}
    /\ IsPvc(subscription.disks[1]) /\ subscription.disks[1].id[5][1] = "MC_"
    /\ IsAksManaged(subscription.disks[2])
    /\ inspected["audit"].result.summary.pvc_count = 1
    /\ inspected["audit"].result.summary.aks_managed_count = 1

\* the caller opted into the category of disk d
OptedIn(d) ==
    \/ IsOrphaned(d)
    \/ IsPvc(d) /\ subscription.include_pvc
    \/ IsAksManaged(d) /\ subscription.include_aks_managed
\* how often disk d is in the actionable list that get_unattached_disks returned
Actionable(d) ==
    IF subscription.lib = "ops"
    THEN InList(inspected["disks"].result.unattached_disks, d)
    ELSE InDict(inspected["disks"].result, d)

\* C19: the actionable list of get_unattached_disks holds, once each, the
\* orphaned disks, the 'pvc-' disks iff the PVC toggle is on and the 'MC_'
\* disks iff the AKS-managed toggle is on, and nothing else; with both
\* toggles off it holds the orphaned disks only.
C19_ActionableByToggles ==
    "disks" \in DOMAIN inspected =>
        \A i \in DOMAIN subscription.disks :
            Actionable(subscription.disks[i]) =
                Once(i \in InScope("disks") /\ OptedIn(subscription.disks[i]))

\* a 'pvc-' disk and an 'MC_' disk, the PVC toggle alone on: the list has
\* the 'pvc-' disk only
C19_Witness ==
    /\ "disks" \in DOMAIN inspected
    /\ subscription.lib = "ops"
    /\ subscription.include_pvc /\ ~subscription.include_aks_managed
    /\ InScope("disks") = {1, 2}
    /\ IsPvc(subscription.disks[1]) /\ IsAksManaged(subscription.disks[2])
    /\ Len(inspected["disks"].result.unattached_disks) = 1
    /\ inspected["disks"].result.unattached_disks[1].id = subscription.disks[1].id

\* the VMs whose turn of the loop completed: in util.py the first
\* instance_view that raises ends the loop
ReachedVms ==
    {i \in Reached("vms", subscription.vms) :
        subscription.lib = "util" => \A j \in 1..i : subscription.vms[j].view}
\* the enumeration of inspector x raised
Failed(x) ==
    \/ subscription.fail[x] # 0
    \/ /\ x = "vms" /\ subscription.lib = "util"
       /\ \E i \in DOMAIN subscription.vms : ~subscription.vms[i].view
\* the key of the error entry of inspector x
ErrorEntryKey(x) ==
    IF x = "budgets" THEN "Budget Error"
    ELSE IF x = "ips" \/ subscription.lib = "util" THEN "Error"
    ELSE IF x = "disks" THEN "unattached_disks"
    ELSE IF x = "audit" THEN "disk_audit"
    ELSE "stopped_vms"
\* a VM that the inspector of the lib at hand reports
Stopped(v) ==
    IF subscription.lib = "ops" THEN v.view /\ v.power = "PowerState/deallocated"
    ELSE v.power \in {"PowerState/deallocated", "PowerState/stopped"}
\* how often VM v is in the result of get_stopped_vms, IP p in the result of
\* get_unassociated_public_ips
VmReported(v) ==
    IF subscription.lib = "ops"
    THEN Len(SelectSeq(inspected["vms"].result.stopped_vms, LAMBDA e : e.id = v.id))
    ELSE IF v.location \in DOMAIN inspected["vms"].result
         THEN Len(SelectSeq(inspected["vms"].result[v.location], LAMBDA e : e.VMName = v.name))
         ELSE 0
IpReported(p) ==
    IF p.location \in DOMAIN inspected["ips"].result
    THEN Len(SelectSeq(inspected["ips"].result[p.location], LAMBDA e : e.Name = p.name))
    ELSE 0
\* how often disk d is in the category lists of the audit
Audited(d) ==
    LET r == inspected["audit"].result IN
    IF subscription.lib = "ops"
    THEN InList(r.orphaned_disks, d) + InList(r.pvc_disks, d) + InList(r.aks_managed_disks, d)
    ELSE InDict(r.truly_orphaned, d) + InDict(r.kubernetes_pvc, d)
         + InDict(r.aks_managed_other, d)

AuditDetails ==
    LET r == inspected["audit"].result IN
    r.orphaned_disks \o r.pvc_disks \o r.aks_managed_disks

\* C21: the monthly cost of an audited disk is its size times the per-GB
\* rate of its SKU (100 GB of Standard_LRS cost 5.00, 100 GB of Premium_LRS
\* cost 18.00; the cost is proportional to the size), a SKU that is not in
\* the table is estimated without an error, and every annual cost of the
\* audit is 12 times the monthly cost beside it.
C21_DiskCostEstimate ==
    "audit" \in DOMAIN inspected =>
        /\ inspected["audit"].errors = EmptyDict
        /\ Len(AuditDetails) = Len(subscription.disks)
        /\ \A i \in DOMAIN AuditDetails :
              LET e == AuditDetails[i] IN
              /\ (e.size_gb = 100 /\ e.sku = "Standard_LRS") => e.monthly_cost = 500
              /\ (e.size_gb = 100 /\ e.sku = "Premium_LRS") => e.monthly_cost = 1800
              /\ \A j \in DOMAIN AuditDetails :
                    AuditDetails[j].sku = e.sku =>
                       AuditDetails[j].monthly_cost * e.size_gb
                          = e.monthly_cost * AuditDetails[j].size_gb
              /\ e.annual_cost = 12 * e.monthly_cost
        /\ LET s == inspected["audit"].result.summary IN
           /\ s.total_annual_cost = 12 * s.total_monthly_cost
           /\ s.orphaned_annual_cost = 12 * s.orphaned_monthly_cost

(***************************************************************************)
(* Properties of the locks of the rate limiter                             *)
(***************************************************************************)
\* thread t is inside the with block of consume
InConsume(t) == th[t].pc \in {"f_refill", "f_test", "f_take"}

\* C22: whatever the interleaving of the threads, a thread inside consume
\* holds the lock of its bucket and is alone inside consume on that bucket,
\* no bucket goes below zero tokens, and the tokens granted from a bucket
\* never exceed its capacity plus its rate times the time since it was built
\* (together with the tokens still in it: capacity plus rate times the time
\* up to its last refill).
C22_AtomicConsume ==
    /\ \A t \in Threads :
          InConsume(t) =>
             /\ bucket_lock[th[t].bref] = t
             /\ \A u \in Threads \ {t} : InConsume(u) => th[u].bref # th[t].bref
    /\ \A i \in Slots :
          Live(i) =>
             /\ heap[i].tokens >= 0
             /\ ledger[i].granted + heap[i].tokens
                   <= heap[i].capacity + heap[i].rate * (heap[i].last_update - ledger[i].born)
             /\ ledger[i].granted
                   <= heap[i].capacity + heap[i].rate * (now - ledger[i].born)

\* two threads on one bucket: the bucket has granted all that it could by
\* now, one thread was granted and the other, which asked for one token
\* at that time, was refused
C22_Witness ==
    /\ \E i \in Slots :
          /\ Live(i) /\ heap[i].key = "a" /\ heap[i].last_update = now
          /\ ledger[i].granted = heap[i].capacity + heap[i].rate * (now - ledger[i].born)
    /\ th[1].pc = "ret" /\ th[1].op = "acquire" /\ th[1].grants = 1
    /\ th[2].pc = "ret" /\ th[2].op = "acquire" /\ ~th[2].ok /\ config.per_subscription

\* C23: a bucket is built only for a bucket key that an acquire can ask
\* for and that is not in the map, and it starts full; for each key exactly one bucket is
\* ever built, also when several threads make the first acquire on the key
\* at the same time, and every thread consumes from the bucket that the map
\* holds for its key.
C23_OneBucketPerKey ==
    /\ DOMAIN made = DOMAIN buckets
    /\ \A k \in DOMAIN made :
          /\ made[k] = 1
          /\ heap[buckets[k]].key = k
          /\ \E key \in KeyArgs :
                k = IF config.per_subscription /\ key # NoKey THEN key ELSE "global"
    /\ \A i \in Slots : Live(i) => buckets[heap[i].key] = i
    /\ \A i \in Slots : (Live(i) /\ ledger[i].granted = 0) => heap[i].tokens = heap[i].capacity
    /\ \A t \in Threads :
          th[t].bref # 0 => /\ th[t].bkey \in DOMAIN buckets
                            /\ buckets[th[t].bkey] = th[t].bref

\* the two threads made the first acquire on an unseen key together: both
\* hold the one bucket built for it, which is still full
C23_Witness ==
    /\ th[1].pc = "f_block" /\ th[2].pc = "f_block"
    /\ th[1].bkey = th[2].bkey
    /\ th[1].bref = th[2].bref
    /\ made[th[1].bkey] = 1
    /\ th[1].grants = 0 /\ th[2].grants = 0 /\ th[1].wake = 0
    /\ ledger[th[1].bref].granted = 0
    /\ heap[th[1].bref].tokens = heap[th[1].bref].capacity

\* C24: a thread takes the lock of the RateLimiter only for a key whose
\* bucket does not exist yet, so a thread whose bucket exists never waits
\* for that lock; and a thread that sleeps in wait_if_needed holds no lock.
C24_LockGranularity ==
    [][/\ \A t \in Threads :
             (lock # t /\ lock' = t) => th[t].bkey \notin DOMAIN buckets
       /\ \A t \in Threads :
             (th[t].pc = "f_lock" /\ lock # 0) => th[t].bkey \notin DOMAIN buckets
       /\ \A t \in Threads :
             th[t].pc = "sleep" => lock # t /\ \A i \in Slots : bucket_lock[i] # t
      ]_vars

(***************************************************************************)
(* Properties of the disk statistics                                       *)
(***************************************************************************)
\* the number of disks in the scope of inspector x that are PVC disks,
\* AKS-managed disks, orphaned disks
PvcInScope(x) == Cardinality({i \in InScope(x) : IsPvc(subscription.disks[i])})
AksInScope(x) == Cardinality({i \in InScope(x) : IsAksManaged(subscription.disks[i])})
OrphanedInScope(x) == Cardinality({i \in InScope(x) : IsOrphaned(subscription.disks[i])})
RECURSIVE SumCounts(_, _)
\* the sum of the counts of the per-SKU statistics, over the SKUs ks
SumCounts(by_sku, ks) ==
    IF ks = {} THEN 0
    ELSE LET k == CHOOSE k \in ks : TRUE IN by_sku[k].count + SumCounts(by_sku, ks \ {k})

\* C25: get_unattached_disks reports every unattached disk in scope in its
\* category and its count whatever the toggles are, total_unattached being
\* the sum of the three counts and included_in_results the length of the
\* actionable list; every result of get_detailed_disk_audit has summary
\* counts equal to the lengths of its three category lists, and per-SKU
\* counts that sum to the total of unattached disks.
C25_DiskStatistics ==
    /\ ("disks" \in DOMAIN inspected /\ subscription.lib = "ops") =>
          LET r == inspected["disks"].result
              s == r.statistics
          IN  /\ Len(r.categories.orphaned) = OrphanedInScope("disks")
              /\ Len(r.categories.pvc) = PvcInScope("disks")
              /\ Len(r.categories.aks_managed) = AksInScope("disks")
              /\ s.orphaned_count = OrphanedInScope("disks")
              /\ s.pvc_count = PvcInScope("disks")
              /\ s.aks_managed_count = AksInScope("disks")
              /\ s.total_unattached = s.orphaned_count + s.pvc_count + s.aks_managed_count
              /\ s.included_in_results = Len(r.unattached_disks)
    /\ ("audit" \in DOMAIN inspected /\ subscription.lib = "ops") =>
          LET r == inspected["audit"].result
              s == r.summary
          IN  /\ {"orphaned_count", "pvc_count", "aks_managed_count",
                  "total_unattached_disks"} \subseteq DOMAIN s
              /\ s.orphaned_count = Len(r.orphaned_disks)
              /\ s.pvc_count = Len(r.pvc_disks)
              /\ s.aks_managed_count = Len(r.aks_managed_disks)
              /\ s.total_unattached_disks
                    = Len(r.orphaned_disks) + Len(r.pvc_disks) + Len(r.aks_managed_disks)
              /\ "by_sku" \in DOMAIN r.cost_analysis
              /\ SumCounts(r.cost_analysis.by_sku, DOMAIN r.cost_analysis.by_sku)
                    = s.total_unattached_disks
    /\ ("audit" \in DOMAIN inspected /\ subscription.lib = "util") =>
          LET r == inspected["audit"].result
              s == r.summary
          IN  /\ s.truly_orphaned_count = CountAll(r.truly_orphaned, DOMAIN r.truly_orphaned)
              /\ s.pvc_count = CountAll(r.kubernetes_pvc, DOMAIN r.kubernetes_pvc)
              /\ s.aks_managed_count
                    = CountAll(r.aks_managed_other, DOMAIN r.aks_managed_other)
              /\ s.total_unattached
                    = s.truly_orphaned_count + s.pvc_count + s.aks_managed_count

(***************************************************************************)
(* Properties of waiting                                                   *)
(***************************************************************************)
\* thread 1 is inside wait_if_needed(key, n) on an enabled limiter
Waiting(n) ==
    /\ config.enabled
    /\ th[1].op = "wait" /\ th[1].n = n
    /\ th[1].pc \notin {"idle", "ret", "raised"}

\* C26: on an enabled limiter, with a single caller and time advancing,
\* wait_if_needed(key, n) returns eventually when n <= burst_size, and never
\* returns when n > burst_size.
C26_WaitTerminates ==
    /\ \A n \in Amounts :
          n <= BurstSize => (Waiting(n) ~> (th[1].op = "wait" /\ th[1].pc = "ret"))
    /\ [](\A n \in Amounts :
            (config.enabled /\ th[1].op = "wait" /\ th[1].n = n /\ n > BurstSize)
               => th[1].pc # "ret")

\* a wait_if_needed for the whole capacity that found the bucket empty,
\* slept and has returned with its tokens
C26_Witness ==
    /\ config.enabled
    /\ th[1].op = "wait" /\ th[1].pc = "ret" /\ th[1].n = BurstSize
    /\ th[1].wake > 0 /\ th[1].grants = 1

(***************************************************************************)
(* Properties of reset and of the request history                          *)
(***************************************************************************)
\* C27: reset(key) removes the bucket and the history stored under the
\* literal key and leaves every other bucket and history as it is; reset()
\* removes all of them; an acquire on a key without a bucket builds a full
\* one; with per-account limiting off, reset(k) for a k other than "global"
\* changes nothing.
C27_ResetFrame ==
    [][\A t \in Threads :
        /\ (th[t].pc = "reset" /\ th'[t].pc # "reset") =>
              LET key == th[t].key IN
              IF key = NoKey
              THEN buckets' = EmptyDict /\ request_history' = EmptyDict
              ELSE /\ DOMAIN buckets' = DOMAIN buckets \ {key}
                   /\ DOMAIN request_history' = DOMAIN request_history \ {key}
                   /\ \A k \in DOMAIN buckets' :
                         buckets'[k] = buckets[k] /\ heap'[buckets[k]] = heap[buckets[k]]
                   /\ \A k \in DOMAIN request_history' :
                         request_history'[k] = request_history[k]
                   /\ (~config.per_subscription /\ key # "global") =>
                         UNCHANGED <<heap, buckets, request_history>>
        /\ (th[t].pc = "acq_map" /\ th'[t].pc # "acq_map"
            /\ th[t].bkey \notin DOMAIN buckets) =>
              /\ th[t].bkey \in DOMAIN buckets'
              /\ heap'[buckets'[th[t].bkey]].tokens = heap'[buckets'[th[t].bkey]].capacity
              /\ heap'[buckets'[th[t].bkey]].capacity = BurstSize
      ]_vars

\* reset("a") has removed the bucket of "a", from which thread 2 had been
\* granted, and has left the bucket "global" and its history
C27_Witness ==
    /\ config.enabled /\ config.per_subscription
    /\ th[1].op = "reset" /\ th[1].pc = "ret"
    /\ th[2].op = "acquire" /\ th[2].pc = "ret" /\ th[2].grants = 1
    /\ DOMAIN buckets = {"global"}
    /\ DOMAIN request_history = {"global"}
    /\ heap[buckets["global"]].tokens = 0

\* C28: on an enabled limiter the request that was granted appends exactly
\* one timestamp to the history of its bucket key (up to the 1000 the deque
\* holds), a refused request appends none, and no step of an acquire takes
\* a timestamp away again, however the acquires on a key interleave.
C28_HistoryMatchesGrants ==
    [][/\ \A t \in Threads :
             /\ (th[t].pc = "rec_append" /\ th'[t].pc # "rec_append") =>
                   /\ th'[t].pc = "ret" /\ th'[t].ok
                   /\ request_history'[th[t].bkey] =
                         Min(HistoryMaxLen,
                             (IF th[t].bkey \in DOMAIN request_history
                              THEN request_history[th[t].bkey] ELSE 0) + 1)
             /\ (th[t].pc = "f_test" /\ th'[t].pc \in {"ret", "sleep"}) =>
                   UNCHANGED request_history
       /\ \A k \in DOMAIN request_history :
             k \in DOMAIN request_history' /\ request_history'[k] >= request_history[k]
      ]_vars

(***************************************************************************)
(* Properties of the module globals                                        *)
(***************************************************************************)
\* the call of get_rate_limiter by thread t has returned and no reset ran
\* during it
GotIn(t) ==
    callers[t].op = "get" /\ callers[t].pc = "ret" /\ ~callers[t].spanned

\* C29: every call of get_rate_limiter returns a RateLimiter built from the
\* rate-limit settings of the global configuration; at most one instance is
\* built between two resets, also when the first calls run at the same
\* time, and all the calls made between two resets return that instance.
C29_Singleton ==
    /\ \A t \in Threads : callers[t].op = "get" => callers[t].pc # "raised"
    /\ Cardinality(instances) <= 1
    /\ \A t \in Threads : GotIn(t) => callers[t].got # NoInstance
    /\ \A t, u \in Threads :
          (GotIn(t) /\ GotIn(u) /\ callers[t].epoch = callers[u].epoch) =>
             callers[t].got = callers[u].got

(***************************************************************************)
(* Properties of the accounting of the resolver                            *)
(***************************************************************************)
\* there is an error entry for the token
HasErrorEntry(tok) ==
    \E k \in DOMAIN profile_errors : Len(k) = 2 /\ k[2] = tok

\* the token is represented in the alias list of group i: the group is that
\* of an account the token names (or, azure, identifies), and the list has
\* the alias this account gives to the token
RepresentedIn(tok, i) ==
    \E d \in DOMAIN directory :
        /\ directory[d].id = groups[i].id
        /\ directory[d].name = tok \/ (impl = "azure" /\ directory[d].id = tok)
        /\ (IF impl = "azure" THEN directory[d].name ELSE tok) \in Range(groups[i].names)
Represented(tok) == \E i \in DOMAIN groups : RepresentedIn(tok, i)

RECURSIVE AliasCount(_)
\* the number of aliases in the groups gs
AliasCount(gs) ==
    IF gs = <<>> THEN 0 ELSE Len(Head(gs).names) + AliasCount(Tail(gs))

\* C30: when the directory is non-empty and all_profiles is false, every
\* requested token is accounted for exactly once: it is represented in the
\* alias list of a group or there is an error entry for it, never both and
\* never neither, the groups hold one alias per requested token without an
\* error entry, and every returned group has a non-empty alias list.
C30_ResolverAccounting ==
    (Resolved /\ directory # <<>>) =>
        /\ \A k \in DOMAIN profiles :
              HasErrorEntry(profiles[k]) # Represented(profiles[k])
        /\ AliasCount(groups) =
              Cardinality({k \in DOMAIN profiles : ~HasErrorEntry(profiles[k])})
        /\ \A i \in DOMAIN groups : groups[i].names # <<>>

\* the accounting of C30 with the aws profiles whose identity has no Account
\* left out
C30_ExceptNoAccount ==
    (\A d \in DOMAIN directory : impl = "aws" => directory[d].sts # "none")
        => C30_ResolverAccounting

====
